---- MODULE Spec2Model ----
(***************************************************************************)
(* crong: the ScheduledJob runner (job.go) driven by its owned Ticker      *)
(* (ticker.go).  Every goroutine is a process with a program counter; a    *)
(* step is one operation on shared state (an atomic, a channel operation,  *)
(* a mutex operation).  Unbuffered channels are rendezvous between the     *)
(* sending and the receiving process.                                      *)
(***************************************************************************)
EXTENDS Integers, Sequences, FiniteSets, TLC

\* ---- bounds of the model ----
MaxCalls == 2         \* calls the program makes on the job (Start, Stop,
                      \* Suspend, Resume, cancelling the context)
MaxTicks == 2         \* ticks the timing loop emits
MaxPool == 1          \* largest MaxConcurrent option
MaxWorkers == 2       \* largest pool of workers (MaxConcurrent of PoolSpec)
MaxLimit == 1         \* largest MaxFailures / MaxConsecutiveFailures option

\* ---- ScheduleState (iota + 1); 0 is the zero value of atomic.Int64 ----
ScheduleStarted == 1
ScheduleSuspended == 2
ScheduleStopped == 3

\* one caller per call of Start and of Stop
Starters == 1 .. MaxCalls
Stoppers == 1 .. MaxCalls
\* start() runs in the goroutine of ScheduleFunc (0) or in a Start caller
Insts == 0 .. MaxCalls
Ticks == 1 .. MaxTicks
Workers == 1 .. MaxWorkers

VARIABLES
  ctor,                 \* "New" (NewScheduledJob) or "Func" (ScheduleFunc)
  options,              \* ScheduledJobOptions
  ctxDone,              \* the caller's context is cancelled
  calls,                \* number of calls made so far
  state, previouslyStarted, stopCh, mu,
  Runs, Running, Failures, ConsecutiveFailures, runtimes,
  spc,                  \* per instance of Start/start: program counter
  startPre,             \* per Start caller: started-or-stopped at the call
  ictx,                 \* per instance: cancel() of start's context called
  wpc,                  \* per instance: the stop-watcher goroutine
  dpc,                  \* per instance: the dispatch goroutine [pc, rt]
  kpc,                  \* per instance, per worker: [pc, rt]
  ipc, iown, ierr,      \* per tick: position of execute(rt), its instance,
                        \* the callback's result (TRUE: an error)
  ppc, pret,            \* per Stop caller: program counter, return value
  casRet,               \* return value of the last Suspend/Resume
  tkCancel, tkStop, tkWatch, tsPc, rPc, clock,
  ticksSeen, ticksSent, ticksDropped,
  recvSuspended,        \* ticks received from C while state was Suspended
  discarded,            \* ticks whose state check read Suspended
  heap,                 \* the backing arrays allocated for s.runtimes
  slice,                \* the slice header of s.runtimes: [arr, len, cap]
  snaps,                \* the slices returned by Runtimes(), each with the
                        \* records it held when it was returned
  now,                  \* the wall clock, in minutes
  schedule,             \* the minutes at which the schedule matches
  sendTimeout,          \* Ticker.sendTimeout, in minutes (0: under a minute)
  ntPc,                 \* position of the NewTicker call
  nextTime, wake, nt,   \* locals of tickOnSchedule and tick
  deadline,             \* deadline of tctx in run
  seen,                 \* the ticks passed from tick to run on tickCh
  received,             \* the ticks a consumer received from Ticker.C
  stops,                \* number of Ticker.Stop calls made
  tickLate,             \* tick() was called with its context already done
  clearTail,            \* the build's slices.Compact zeroes the elements it
                        \* drops (Go 1.22 and later) or leaves them (1.21)
  fld, text,            \* field.parse: the receiver's Index and the text
  parsePc, parsed,      \* position of the parse call, and what it returned
  cron, loc,            \* the arguments of New
  newPc, sched, newErr, \* position of the New call, and what it returned
  cur,                  \* the time the program holds: [sec, zone]
  last,                 \* the last call on the Schedule: [op, arg, ret, ...]
  nops                  \* number of calls made on the Schedule

jobVars == <<state, previouslyStarted, stopCh, mu, Runs, Running, Failures,
             ConsecutiveFailures, runtimes>>
startVars == <<spc, startPre, ictx, wpc, dpc, kpc>>
invVars == <<ipc, iown, ierr>>
callVars == <<ppc, pret, casRet>>
tickerVars == <<tkCancel, tkStop, tkWatch, tsPc, rPc, clock,
                ticksSeen, ticksSent, ticksDropped>>
ghostVars == <<recvSuspended, discarded>>
cfgVars == <<ctor, options>>
histVars == <<heap, slice, snaps>>
timeVars == <<now, schedule, sendTimeout, ntPc, nextTime, wake, nt, deadline,
              seen, received, stops, tickLate>>
\* the variables that only the history, the timed ticker, the parser and the
\* schedule specifications change
parseVars == <<clearTail, fld, text, parsePc, parsed>>
schedVars == <<cron, loc, newPc, sched, newErr, cur, last, nops>>
auxVars == <<histVars, timeVars, parseVars, schedVars>>
vars == <<cfgVars, auxVars, ctxDone, calls, jobVars, startVars, invVars,
          callVars, tickerVars, ghostVars>>

\* ---- contexts ----
\* ctx of start(): context.WithCancel(ctx) of the caller's ctx
CtxDone(i) == ictx[i] \/ ctxDone
\* ctx of the ticker: Background for NewScheduledJob, the caller's ctx for
\* ScheduleFunc and for a direct NewTicker call
TickerCtxDone == tkCancel \/ (ctor # "New" /\ ctxDone)

\* non-blocking send on a channel of capacity 1
TrySend(ch) == IF ch < 1 THEN ch + 1 ELSE ch

Idle == [pc |-> "sel", rt |-> 0]

\* the slice make([]*JobRuntime, 0): no backing array, len 0, cap 0
EmptySlice == [arr |-> 0, len |-> 0, cap |-> 0]

\* the history as a Go slice, before any append or Runtimes() call
HistInit == heap = <<>> /\ slice = EmptySlice /\ snaps = <<>>

\* the timed ticker, not constructed
TimeInit ==
  /\ now = 0 /\ schedule = {} /\ sendTimeout = 0 /\ ntPc = "none"
  /\ nextTime = 0 /\ wake = 0 /\ nt = 0 /\ deadline = 0
  /\ seen = <<>> /\ received = <<>> /\ stops = 0 /\ tickLate = FALSE

\* no time, no call on a Schedule
NoTime == [sec |-> 0, zone |-> 0]
NoCall == [op |-> "none", arg |-> NoTime, ret |-> NoTime, returned |-> FALSE,
           val |-> FALSE]

\* the *Schedule nil
NilSchedule ==
  [isNil |-> TRUE, values |-> <<>>, loc |-> 0,
   allowAnyMinute |-> FALSE, minutes |-> <<>>,
   allowAnyHour |-> FALSE, hours |-> <<>>,
   allowAnyDay |-> FALSE, days |-> <<>>,
   allowAnyMonth |-> FALSE, months |-> <<>>,
   allowAnyWeekday |-> FALSE, weekdays |-> <<>>]

\* the parser and the Schedule, not used
ParseInit ==
  /\ clearTail = FALSE /\ fld = 0 /\ text = <<>> /\ parsePc = "none"
  /\ parsed = [values |-> <<>>, isNil |-> TRUE, err |-> FALSE]

SchedInit ==
  /\ cron = <<>> /\ loc = 0 /\ newPc = "none" /\ sched = NilSchedule
  /\ newErr = FALSE /\ cur = NoTime /\ last = NoCall /\ nops = 0

AuxInit == HistInit /\ TimeInit /\ ParseInit /\ SchedInit

Init ==
  /\ ctor \in {"New", "Func"}
  /\ options \in [MaxConcurrent : 0 .. MaxPool,
                  MaxFailures : 0 .. MaxLimit,
                  MaxConsecutiveFailures : 0 .. MaxLimit]
  /\ ctxDone = FALSE
  /\ calls = 0
  /\ state = IF ctor = "Func" THEN ScheduleStarted ELSE 0
  /\ previouslyStarted = (ctor = "Func")
  /\ stopCh = 0
  /\ mu = FALSE
  /\ Runs = 0 /\ Running = 0 /\ Failures = 0 /\ ConsecutiveFailures = 0
  /\ runtimes = <<>>
  /\ spc = [i \in Insts |-> IF i = 0 /\ ctor = "Func" THEN "lock"
                            ELSE IF i = 0 THEN "none" ELSE "idle"]
  /\ startPre = [i \in Insts |-> FALSE]
  /\ ictx = [i \in Insts |-> FALSE]
  /\ wpc = [i \in Insts |-> "none"]
  /\ dpc = [i \in Insts |-> [pc |-> "none", rt |-> 0]]
  /\ kpc = [i \in Insts |-> [w \in Workers |-> [pc |-> "none", rt |-> 0]]]
  /\ ipc = [t \in Ticks |-> "none"]
  /\ iown = [t \in Ticks |-> 0]
  /\ ierr = [t \in Ticks |-> FALSE]
  /\ ppc = [p \in Stoppers |-> "idle"]
  /\ pret = [p \in Stoppers |-> FALSE]
  /\ casRet = FALSE
  /\ tkCancel = FALSE /\ tkStop = 0 /\ tkWatch = "sel"
  /\ tsPc = "loop" /\ rPc = [pc |-> "sel", rt |-> 0] /\ clock = 0
  /\ ticksSeen = 0 /\ ticksSent = 0 /\ ticksDropped = 0
  /\ recvSuspended = {} /\ discarded = {}
  /\ AuxInit

\* ======================= Ticker (ticker.go) =======================

\* the stop watcher returning on a stop token without calling cancel()
TickerWatchStopNoCancel ==
  /\ tkWatch = "sel" /\ tkStop = 1
  /\ tkStop' = 0 /\ tkCancel' = tkCancel /\ tkWatch' = "done"
  /\ UNCHANGED <<cfgVars, auxVars, ctxDone, calls, jobVars, startVars, invVars, callVars,
                 tsPc, rPc, clock, ticksSeen, ticksSent, ticksDropped,
                 ghostVars>>

\* NewTicker's first goroutine: case <-t.stop: cancel(); return
TickerWatchStop ==
  /\ tkWatch = "sel" /\ tkStop = 1
  /\ tkStop' = 0 /\ tkCancel' = TRUE /\ tkWatch' = "done"
  /\ UNCHANGED <<cfgVars, auxVars, ctxDone, calls, jobVars, startVars, invVars, callVars,
                 tsPc, rPc, clock, ticksSeen, ticksSent, ticksDropped,
                 ghostVars>>

\* NewTicker's first goroutine: case <-ctx.Done(): t.Stop()
TickerWatchCtx ==
  /\ tkWatch = "sel" /\ TickerCtxDone
  /\ tkStop' = TrySend(tkStop)
  /\ UNCHANGED <<cfgVars, auxVars, ctxDone, calls, jobVars, startVars, invVars, callVars,
                 tkCancel, tkWatch, tsPc, rPc, clock, ticksSeen, ticksSent,
                 ticksDropped, ghostVars>>

\* tickOnSchedule: between two ticks the loop sleeps a minute at a time; it
\* returns when ctx is done (the loop head or the select on ctx.Done()), and
\* calls t.tick(ctx) when the wall clock reaches the next occurrence
tickOnSchedule ==
  /\ tsPc = "loop"
  /\ IF TickerCtxDone THEN tsPc' = "done"
     ELSE clock < MaxTicks /\ tsPc' = "tick"
  /\ UNCHANGED <<cfgVars, auxVars, ctxDone, calls, jobVars, startVars, invVars, callVars,
                 tkCancel, tkStop, tkWatch, rPc, clock, ticksSeen,
                 ticksSent, ticksDropped, ghostVars>>

\* tick: case t.tickCh <- nt, received by run's outer select (case
\* currentTick := <-t.tickCh); then t.ticksSeen.Add(1), and tick returns
tick ==
  /\ tsPc = "tick" /\ rPc.pc = "sel"
  /\ clock' = clock + 1
  /\ rPc' = [pc |-> "send", rt |-> clock + 1]
  /\ ticksSeen' = ticksSeen + 1
  /\ tsPc' = "loop"
  /\ UNCHANGED <<cfgVars, auxVars, ctxDone, calls, jobVars, startVars, invVars,
                 callVars, tkCancel, tkStop, tkWatch, ticksSent,
                 ticksDropped, ghostVars>>

\* tick: case <-ctx.Done(): return false
tickCancelled ==
  /\ tsPc = "tick" /\ TickerCtxDone
  /\ tsPc' = "loop"
  /\ UNCHANGED <<cfgVars, auxVars, ctxDone, calls, jobVars, startVars, invVars, callVars,
                 tkCancel, tkStop, tkWatch, rPc, clock, ticksSeen,
                 ticksSent, ticksDropped, ghostVars>>

\* run: case <-ctx.Done(): return
runCancelled ==
  /\ rPc.pc = "sel" /\ TickerCtxDone
  /\ rPc' = [pc |-> "done", rt |-> 0]
  /\ UNCHANGED <<cfgVars, auxVars, ctxDone, calls, jobVars, startVars, invVars, callVars,
                 tkCancel, tkStop, tkWatch, tsPc, clock, ticksSeen,
                 ticksSent, ticksDropped, ghostVars>>

\* run: case <-tctx.Done() (sendTimeout elapsed, or ctx cancelled):
\* t.ticksDropped.Add(1)
runDrop ==
  /\ rPc.pc = "send"
  /\ ticksDropped' = ticksDropped + 1
  /\ rPc' = [pc |-> "sel", rt |-> 0]
  /\ UNCHANGED <<cfgVars, auxVars, ctxDone, calls, jobVars, startVars, invVars, callVars,
                 tkCancel, tkStop, tkWatch, tsPc, clock, ticksSeen,
                 ticksSent, ghostVars>>

\* ======================= ScheduledJob (job.go) =======================

\* the caller's context is cancelled
CtxCancel ==
  /\ ~ctxDone
  /\ calls < MaxCalls /\ calls' = calls + 1
  /\ ctxDone' = TRUE
  /\ UNCHANGED <<cfgVars, auxVars, jobVars, startVars, invVars, callVars, tickerVars,
                 ghostVars>>

\* Start: if state == ScheduleStopped { return error }
Start(c) ==
  /\ spc[c] = "idle" /\ (IF c = 1 THEN TRUE ELSE spc[c - 1] # "idle")
  /\ calls < MaxCalls /\ calls' = calls + 1
  /\ startPre' = [startPre EXCEPT
                    ![c] = (state = ScheduleStopped \/ previouslyStarted)]
  /\ spc' = [spc EXCEPT ![c] = IF state = ScheduleStopped THEN "err"
                               ELSE "chkPrev"]
  /\ UNCHANGED <<cfgVars, auxVars, ctxDone, jobVars, ictx, wpc, dpc, kpc, invVars,
                 callVars, tickerVars, ghostVars>>

\* StartCheckPrev without the one-shot guard
StartCheckPrevUnguarded(c) ==
  /\ spc[c] = "chkPrev"
  /\ spc' = [spc EXCEPT ![c] = "lock"]
  /\ UNCHANGED <<cfgVars, auxVars, ctxDone, calls, jobVars, startPre, ictx, wpc, dpc,
                 kpc, invVars, callVars, tickerVars, ghostVars>>

\* Start: if previouslyStarted { return error }; return s.start(ctx)
StartCheckPrev(c) ==
  /\ spc[c] = "chkPrev"
  /\ spc' = [spc EXCEPT ![c] = IF previouslyStarted THEN "err" ELSE "lock"]
  /\ UNCHANGED <<cfgVars, auxVars, ctxDone, calls, jobVars, startPre, ictx, wpc, dpc, kpc,
                 invVars, callVars, tickerVars, ghostVars>>

\* start: s.mu.Lock(); s.state.Store(ScheduleStarted)
startLock(i) ==
  /\ spc[i] = "lock" /\ ~mu
  /\ mu' = TRUE
  /\ state' = ScheduleStarted
  /\ spc' = [spc EXCEPT ![i] = "locked"]
  /\ UNCHANGED <<cfgVars, auxVars, ctxDone, calls, previouslyStarted, stopCh, Runs, Running,
                 Failures, ConsecutiveFailures, runtimes, startPre, ictx,
                 wpc, dpc, kpc, invVars, callVars, tickerVars, ghostVars>>

\* start: s.previouslyStarted.Store(true); s.mu.Unlock(); then the
\* stop-watcher, the MaxConcurrent workers and the dispatch loop are spawned
startSpawn(i) ==
  /\ spc[i] = "locked"
  /\ previouslyStarted' = TRUE
  /\ mu' = FALSE
  /\ wpc' = [wpc EXCEPT ![i] = "sel"]
  /\ dpc' = [dpc EXCEPT ![i] = Idle]
  /\ kpc' = [kpc EXCEPT ![i] = [w \in Workers |->
               IF w <= options.MaxConcurrent THEN Idle ELSE @[w]]]
  /\ spc' = [spc EXCEPT ![i] = "wait"]
  /\ UNCHANGED <<cfgVars, auxVars, ctxDone, calls, state, stopCh, Runs, Running, Failures,
                 ConsecutiveFailures, runtimes, startPre, ictx, invVars,
                 callVars, tickerVars, ghostVars>>

\* the stop-watcher: select { case <-ctx.Done(): ; case <-s.stopCh: cancel() }
\* followed by the deferred wg.Done()
watch(i) ==
  /\ wpc[i] = "sel"
  /\ \/ CtxDone(i) /\ UNCHANGED <<stopCh, ictx>>
     \/ /\ stopCh = 1
        /\ stopCh' = 0
        /\ ictx' = [ictx EXCEPT ![i] = TRUE]
  /\ wpc' = [wpc EXCEPT ![i] = "store"]
  /\ UNCHANGED <<cfgVars, auxVars, ctxDone, calls, state, previouslyStarted, mu, Runs,
                 Running, Failures, ConsecutiveFailures, runtimes, spc,
                 startPre, dpc, kpc, invVars, callVars, tickerVars,
                 ghostVars>>

\* the stop-watcher: the deferred s.state.Store(ScheduleStopped), which
\* runs after the deferred wg.Done()
watchStore(i) ==
  /\ wpc[i] = "store"
  /\ state' = ScheduleStopped
  /\ wpc' = [wpc EXCEPT ![i] = "done"]
  /\ UNCHANGED <<cfgVars, auxVars, ctxDone, calls, previouslyStarted, stopCh, mu, Runs,
                 Running, Failures, ConsecutiveFailures, runtimes, spc,
                 startPre, ictx, dpc, kpc, invVars, callVars, tickerVars,
                 ghostVars>>

\* a worker: case <-ctx.Done(): return
workerCancelled(i, w) ==
  /\ kpc[i][w].pc = "sel" /\ CtxDone(i)
  /\ kpc' = [kpc EXCEPT ![i][w] = [pc |-> "done", rt |-> 0]]
  /\ UNCHANGED <<cfgVars, auxVars, ctxDone, calls, jobVars, spc, startPre, ictx, wpc, dpc,
                 invVars, callVars, tickerVars, ghostVars>>

\* the dispatch loop: case <-ctx.Done(): return
dispatchCancelled(i) ==
  /\ dpc[i].pc = "sel" /\ CtxDone(i)
  /\ dpc' = [dpc EXCEPT ![i] = [pc |-> "done", rt |-> 0]]
  /\ UNCHANGED <<cfgVars, auxVars, ctxDone, calls, jobVars, spc, startPre, ictx, wpc, kpc,
                 invVars, callVars, tickerVars, ghostVars>>

\* the dispatch loop: case rt := <-s.ticker.C, sent by Ticker.run (case
\* t.C <- currentTick, then t.ticksSent.Add(1))
dispatchRecv(i) ==
  /\ dpc[i].pc = "sel" /\ rPc.pc = "send"
  /\ dpc' = [dpc EXCEPT ![i] = [pc |-> "chk", rt |-> rPc.rt]]
  /\ rPc' = [pc |-> "sel", rt |-> 0]
  /\ ticksSent' = ticksSent + 1
  /\ recvSuspended' = IF state = ScheduleSuspended
                      THEN recvSuspended \cup {rPc.rt} ELSE recvSuspended
  /\ UNCHANGED <<cfgVars, auxVars, ctxDone, calls, jobVars, spc, startPre, ictx, wpc, kpc,
                 invVars, callVars, tkCancel, tkStop, tkWatch, tsPc, clock,
                 ticksSeen, ticksDropped, discarded>>

\* dispatchSwitch with the Suspended case falling through to the dispatch
dispatchSwitchFallThrough(i) ==
  /\ dpc[i].pc = "chk"
  /\ discarded' = IF state = ScheduleSuspended
                  THEN discarded \cup {dpc[i].rt} ELSE discarded
  /\ IF options.MaxConcurrent = 0
     THEN /\ ipc' = [ipc EXCEPT ![dpc[i].rt] = "runs"]
          /\ iown' = [iown EXCEPT ![dpc[i].rt] = i]
          /\ dpc' = [dpc EXCEPT ![i] = Idle]
          /\ UNCHANGED ierr
     ELSE /\ dpc' = [dpc EXCEPT ![i].pc = "send"]
          /\ UNCHANGED invVars
  /\ UNCHANGED <<cfgVars, auxVars, ctxDone, calls, jobVars, spc, startPre, ictx, wpc,
                 kpc, callVars, tickerVars, recvSuspended>>

\* dispatchSwitch without the jobCh == nil case: with MaxConcurrent = 0 the
\* loop sends on the nil channel and blocks
dispatchSwitchNilSend(i) ==
  /\ dpc[i].pc = "chk"
  /\ IF state = ScheduleSuspended
     THEN /\ discarded' = discarded \cup {dpc[i].rt}
          /\ dpc' = [dpc EXCEPT ![i] = Idle]
     ELSE /\ dpc' = [dpc EXCEPT ![i].pc = "send"]
          /\ UNCHANGED discarded
  /\ UNCHANGED <<cfgVars, auxVars, ctxDone, calls, jobVars, spc, startPre, ictx, wpc, kpc,
                 invVars, callVars, tickerVars, recvSuspended>>

\* the dispatch loop: switch on s.state.Load() and jobCh == nil
dispatchSwitch(i) ==
  /\ dpc[i].pc = "chk"
  /\ IF state = ScheduleSuspended
     THEN /\ discarded' = discarded \cup {dpc[i].rt}
          /\ dpc' = [dpc EXCEPT ![i] = Idle]
          /\ UNCHANGED invVars
     ELSE IF options.MaxConcurrent = 0
     THEN /\ ipc' = [ipc EXCEPT ![dpc[i].rt] = "runs"]
          /\ iown' = [iown EXCEPT ![dpc[i].rt] = i]
          /\ dpc' = [dpc EXCEPT ![i] = Idle]
          /\ UNCHANGED <<ierr, discarded>>
     ELSE /\ dpc' = [dpc EXCEPT ![i].pc = "send"]
          /\ UNCHANGED <<invVars, discarded>>
  /\ UNCHANGED <<cfgVars, auxVars, ctxDone, calls, jobVars, spc, startPre, ictx, wpc, kpc,
                 callVars, tickerVars, recvSuspended>>

\* jobCh <- rt in the dispatch loop, received by a worker: case rt := <-jobCh
handOff(i, w) ==
  /\ dpc[i].pc = "send" /\ kpc[i][w].pc = "sel"
  /\ kpc' = [kpc EXCEPT ![i][w] = [pc |-> "exec", rt |-> dpc[i].rt]]
  /\ ipc' = [ipc EXCEPT ![dpc[i].rt] = "runs"]
  /\ iown' = [iown EXCEPT ![dpc[i].rt] = i]
  /\ dpc' = [dpc EXCEPT ![i] = Idle]
  /\ UNCHANGED <<cfgVars, auxVars, ctxDone, calls, jobVars, spc, startPre, ictx, wpc, ierr,
                 callVars, tickerVars, ghostVars>>

\* execute: s.Runs.Add(1)
executeRuns(t) ==
  /\ ipc[t] = "runs"
  /\ Runs' = Runs + 1
  /\ ipc' = [ipc EXCEPT ![t] = "running"]
  /\ UNCHANGED <<cfgVars, auxVars, ctxDone, calls, state, previouslyStarted, stopCh, mu,
                 Running, Failures, ConsecutiveFailures, runtimes, startVars,
                 iown, ierr, callVars, tickerVars, ghostVars>>

\* execute: s.Running.Add(1)
executeRunning(t) ==
  /\ ipc[t] = "running"
  /\ Running' = Running + 1
  /\ ipc' = [ipc EXCEPT ![t] = "lock"]
  /\ UNCHANGED <<cfgVars, auxVars, ctxDone, calls, state, previouslyStarted, stopCh, mu,
                 Runs, Failures, ConsecutiveFailures, runtimes, startVars,
                 iown, ierr, callVars, tickerVars, ghostVars>>

\* executeLock entering the critical section without waiting for the lock
executeLockNoWait(t) ==
  /\ ipc[t] = "lock"
  /\ mu' = TRUE
  /\ ipc' = [ipc EXCEPT ![t] = "call"]
  /\ UNCHANGED <<cfgVars, auxVars, ctxDone, calls, state, previouslyStarted, stopCh, Runs,
                 Running, Failures, ConsecutiveFailures, runtimes, startVars,
                 iown, ierr, callVars, tickerVars, ghostVars>>

\* execute: s.mu.Lock()
executeLock(t) ==
  /\ ipc[t] = "lock" /\ ~mu
  /\ mu' = TRUE
  /\ ipc' = [ipc EXCEPT ![t] = "call"]
  /\ UNCHANGED <<cfgVars, auxVars, ctxDone, calls, state, previouslyStarted, stopCh, Runs,
                 Running, Failures, ConsecutiveFailures, runtimes, startVars,
                 iown, ierr, callVars, tickerVars, ghostVars>>

\* the failure branch of execute requests a stop when a threshold is reached
ThresholdReached(failures, consecutiveFailures) ==
  \/ options.MaxFailures > 0 /\ failures >= options.MaxFailures
  \/ options.MaxConsecutiveFailures > 0
       /\ consecutiveFailures >= options.MaxConsecutiveFailures

\* executeCall with a plain send in place of the select with a default: the
\* invocation waits until the stop channel has room
executeCallBlocking(t) ==
  /\ ipc[t] = "call"
  /\ \E err \in BOOLEAN :
       /\ ierr' = [ierr EXCEPT ![t] = err]
       /\ IF ~err
          THEN /\ ConsecutiveFailures' = 0
               /\ UNCHANGED <<Failures, stopCh>>
          ELSE /\ Failures' = Failures + 1
               /\ ConsecutiveFailures' = ConsecutiveFailures + 1
               /\ IF ThresholdReached(Failures + 1, ConsecutiveFailures + 1)
                  THEN stopCh < 1 /\ stopCh' = stopCh + 1
                  ELSE UNCHANGED stopCh
  /\ ipc' = [ipc EXCEPT ![t] = "commit"]
  /\ UNCHANGED <<cfgVars, auxVars, ctxDone, calls, state, previouslyStarted, mu, Runs,
                 Running, runtimes, startVars, iown, callVars, tickerVars,
                 ghostVars>>

\* execute: runtime.Error = s.f(rt), the counters, the non-blocking stop
\* request (select { case s.stopCh <- struct{}{}: default: })
executeCall(t) ==
  /\ ipc[t] = "call"
  /\ \E err \in BOOLEAN :
       /\ ierr' = [ierr EXCEPT ![t] = err]
       /\ IF ~err
          THEN /\ ConsecutiveFailures' = 0
               /\ UNCHANGED <<Failures, stopCh>>
          ELSE /\ Failures' = Failures + 1
               /\ ConsecutiveFailures' = ConsecutiveFailures + 1
               /\ stopCh' = IF ThresholdReached(Failures + 1,
                                                ConsecutiveFailures + 1)
                            THEN TrySend(stopCh) ELSE stopCh
  /\ ipc' = [ipc EXCEPT ![t] = "commit"]
  /\ UNCHANGED <<cfgVars, auxVars, ctxDone, calls, state, previouslyStarted, mu, Runs,
                 Running, runtimes, startVars, iown, callVars, tickerVars,
                 ghostVars>>

\* executeAppend without the append: the record of the invocation is lost
executeAppendDropped(t) ==
  /\ ipc[t] = "commit"
  /\ mu' = FALSE
  /\ ipc' = [ipc EXCEPT ![t] = "dec"]
  /\ UNCHANGED <<cfgVars, auxVars, ctxDone, calls, state, previouslyStarted, stopCh, Runs,
                 Running, Failures, ConsecutiveFailures, runtimes, startVars,
                 iown, ierr, callVars, tickerVars, ghostVars>>

\* execute: s.runtimes = append(s.runtimes, runtime); deferred s.mu.Unlock()
executeAppend(t) ==
  /\ ipc[t] = "commit"
  /\ runtimes' = Append(runtimes, [Start |-> t, Error |-> ierr[t]])
  /\ mu' = FALSE
  /\ ipc' = [ipc EXCEPT ![t] = "dec"]
  /\ UNCHANGED <<cfgVars, auxVars, ctxDone, calls, state, previouslyStarted, stopCh, Runs,
                 Running, Failures, ConsecutiveFailures, startVars, iown,
                 ierr, callVars, tickerVars, ghostVars>>

\* execute: deferred s.Running.Add(-1); a worker goes back to its select,
\* a fire-and-forget goroutine runs its deferred wg.Done()
executeDone(t) ==
  /\ ipc[t] = "dec"
  /\ Running' = Running - 1
  /\ ipc' = [ipc EXCEPT ![t] = "done"]
  /\ kpc' = [i \in Insts |-> [w \in Workers |->
               IF kpc[i][w].pc = "exec" /\ kpc[i][w].rt = t
               THEN Idle ELSE kpc[i][w]]]
  /\ UNCHANGED <<cfgVars, auxVars, ctxDone, calls, state, previouslyStarted, stopCh, mu,
                 Runs, Failures, ConsecutiveFailures, runtimes, spc,
                 startPre, ictx, wpc, dpc, iown, ierr, callVars, tickerVars,
                 ghostVars>>

\* wg.Wait() of start: every goroutine of this start has called wg.Done()
WaitGroupZero(i) ==
  /\ wpc[i] \in {"store", "done"}
  /\ dpc[i].pc = "done"
  /\ \A w \in Workers : kpc[i][w].pc \in {"none", "done"}
  /\ \A t \in Ticks : iown[t] = i => ipc[t] \in {"none", "done"}

\* startReturn without wg.Wait(): the deferred calls run while goroutines
\* of this start() may still be running
startReturnNoWait(i) ==
  /\ spc[i] = "wait"
  /\ tkStop' = TrySend(tkStop)
  /\ ictx' = [ictx EXCEPT ![i] = TRUE]
  /\ spc' = [spc EXCEPT ![i] = "nil"]
  /\ UNCHANGED <<cfgVars, auxVars, ctxDone, calls, jobVars, startPre, wpc, dpc, kpc,
                 invVars, callVars, tkCancel, tkWatch, tsPc, rPc, clock,
                 ticksSeen, ticksSent, ticksDropped, ghostVars>>

\* start: wg.Wait() returns; deferred close(jobCh), s.ticker.Stop(),
\* cancel(); return nil
startReturn(i) ==
  /\ spc[i] = "wait" /\ WaitGroupZero(i)
  /\ tkStop' = TrySend(tkStop)
  /\ ictx' = [ictx EXCEPT ![i] = TRUE]
  /\ spc' = [spc EXCEPT ![i] = "nil"]
  /\ UNCHANGED <<cfgVars, auxVars, ctxDone, calls, jobVars, startPre, wpc, dpc, kpc,
                 invVars, callVars, tkCancel, tkWatch, tsPc, rPc, clock,
                 ticksSeen, ticksSent, ticksDropped, ghostVars>>

\* a caller enters Stop(ctx)
StopCall(p) ==
  /\ ppc[p] = "idle" /\ (IF p = 1 THEN TRUE ELSE ppc[p - 1] # "idle")
  /\ calls < MaxCalls /\ calls' = calls + 1
  /\ ppc' = [ppc EXCEPT ![p] = "sel"]
  /\ UNCHANGED <<cfgVars, auxVars, ctxDone, jobVars, startVars, invVars, pret, casRet,
                 tickerVars, ghostVars>>

\* Stop: select { case <-ctx.Done(): ; case s.stopCh <- struct{}{}: }
StopSelect(p) ==
  /\ ppc[p] = "sel"
  /\ \/ ctxDone /\ UNCHANGED stopCh
     \/ stopCh < 1 /\ stopCh' = stopCh + 1
  /\ ppc' = [ppc EXCEPT ![p] = "swap"]
  /\ UNCHANGED <<cfgVars, auxVars, ctxDone, calls, state, previouslyStarted, mu, Runs,
                 Running, Failures, ConsecutiveFailures, runtimes, startVars,
                 invVars, pret, casRet, tickerVars, ghostVars>>

\* Stop: old := s.state.Swap(ScheduleStopped); return old != ScheduleStopped
StopSwap(p) ==
  /\ ppc[p] = "swap"
  /\ pret' = [pret EXCEPT ![p] = (state # ScheduleStopped)]
  /\ state' = ScheduleStopped
  /\ ppc' = [ppc EXCEPT ![p] = "ret"]
  /\ UNCHANGED <<cfgVars, auxVars, ctxDone, calls, previouslyStarted, stopCh, mu, Runs,
                 Running, Failures, ConsecutiveFailures, runtimes, startVars,
                 invVars, casRet, tickerVars, ghostVars>>

\* atomic.Int64.CompareAndSwap
CompareAndSwap(old, new) ==
  /\ casRet' = (state = old)
  /\ state' = IF state = old THEN new ELSE state

\* Suspend as an unconditional store of ScheduleSuspended
SuspendStore ==
  /\ calls < MaxCalls /\ calls' = calls + 1
  /\ casRet' = TRUE
  /\ state' = ScheduleSuspended
  /\ UNCHANGED <<cfgVars, auxVars, ctxDone, previouslyStarted, stopCh, mu, Runs,
                 Running, Failures, ConsecutiveFailures, runtimes, startVars,
                 invVars, ppc, pret, tickerVars, ghostVars>>

\* Suspend: s.state.CompareAndSwap(ScheduleStarted, ScheduleSuspended)
Suspend ==
  /\ calls < MaxCalls /\ calls' = calls + 1
  /\ CompareAndSwap(ScheduleStarted, ScheduleSuspended)
  /\ UNCHANGED <<cfgVars, auxVars, ctxDone, previouslyStarted, stopCh, mu, Runs,
                 Running, Failures, ConsecutiveFailures, runtimes, startVars,
                 invVars, ppc, pret, tickerVars, ghostVars>>

\* Resume: s.state.CompareAndSwap(ScheduleSuspended, ScheduleStarted)
Resume ==
  /\ calls < MaxCalls /\ calls' = calls + 1
  /\ CompareAndSwap(ScheduleSuspended, ScheduleStarted)
  /\ UNCHANGED <<cfgVars, auxVars, ctxDone, previouslyStarted, stopCh, mu, Runs,
                 Running, Failures, ConsecutiveFailures, runtimes, startVars,
                 invVars, ppc, pret, tickerVars, ghostVars>>

TickerNext ==
  \/ TickerWatchStop \/ TickerWatchCtx
  \/ tickOnSchedule \/ tick \/ tickCancelled
  \/ runCancelled \/ runDrop

JobNext ==
  \/ \E i \in Insts : startLock(i) \/ startSpawn(i) \/ watch(i)
                        \/ watchStore(i) \/ dispatchCancelled(i)
                        \/ dispatchRecv(i) \/ dispatchSwitch(i)
                        \/ startReturn(i)
  \/ \E i \in Insts, w \in Workers : workerCancelled(i, w) \/ handOff(i, w)
  \/ \E t \in Ticks : executeRuns(t) \/ executeRunning(t) \/ executeLock(t)
                        \/ executeCall(t) \/ executeAppend(t)
                        \/ executeDone(t)

EnvNext ==
  \/ CtxCancel
  \/ \E c \in Starters : Start(c) \/ StartCheckPrev(c)
  \/ \E p \in Stoppers : StopCall(p) \/ StopSelect(p) \/ StopSwap(p)
  \/ Suspend \/ Resume

Next == TickerNext \/ JobNext \/ EnvNext

Spec == Init /\ [][Next]_vars

\* the steps the program takes by itself: its goroutines and the calls
\* already entered
CallNext ==
  \/ \E c \in Starters : StartCheckPrev(c)
  \/ \E p \in Stoppers : StopSelect(p) \/ StopSwap(p)

\* no goroutine of the job and no pending call can take a step
JobQuiescent == ~ENABLED (JobNext \/ CallNext)

\* start() is running or has returned in the goroutine of i
Started(i) == spc[i] \in {"lock", "locked", "wait", "nil"}

\* execute(rt) has been entered for tick t and has not returned
InProgress(t) == ipc[t] \notin {"none", "done"}

\* ========================== properties ==========================

\* C1: once the state is Stopped, no step of Start, Stop, Suspend, Resume or
\* of the job's goroutines changes it to another state.
C1_StoppedIsTerminal ==
  [][state = ScheduleStopped => state' = ScheduleStopped]_vars

\* C2: once Stop has been called or the context is cancelled, a running job
\* does not get stuck: when none of its goroutines can take a step any more,
\* Start has returned nil and the state is Stopped.
C2_ShutdownCompletes ==
  \A i \in Insts :
    (/\ spc[i] \in {"wait", "nil"}
     /\ ctxDone \/ \E p \in Stoppers : ppc[p] \in {"swap", "ret"}
     /\ JobQuiescent)
    => spc[i] = "nil" /\ state = ScheduleStopped

\* C3: a tick received from Ticker.C while the state is Suspended never
\* enters execute.
C3_ReceivedSuspendedDiscarded ==
  \A t \in recvSuspended : ipc[t] = "none"

\* C3, as the code has it: a tick for which the dispatch loop's switch reads the state
\* Suspended never enters execute, is not handed to a worker, and Runs
\* counts only the ticks that entered execute.
C3_CheckedSuspendedDiscarded ==
  /\ \A t \in discarded :
        /\ ipc[t] = "none"
        /\ \A i \in Insts : dpc[i].rt # t
        /\ \A i \in Insts, w \in Workers : kpc[i][w].rt # t
  /\ Runs = Cardinality({t \in Ticks : ipc[t] \notin {"none", "runs"}})

\* a discarded tick, then Resume, then a later tick that ran
C3_Witness ==
  /\ discarded = {1}
  /\ state = ScheduleStarted
  /\ ipc[2] = "done"
  /\ Runs = 1

\* the threshold N of the job: MaxFailures, or else MaxConsecutiveFailures
Threshold ==
  IF options.MaxFailures > 0 THEN options.MaxFailures
  ELSE options.MaxConsecutiveFailures

\* the program made no call that stops the job from outside
NoExternalStop == ~ctxDone /\ \A p \in Stoppers : ppc[p] = "idle"

\* C4: when a failed invocation has brought a counter to its threshold and
\* nobody stops the job from outside, the job does not get stuck: when none
\* of its goroutines can take a step any more, the state is Stopped and the
\* blocked Start call has returned nil.
C4_SelfStop ==
  \A i \in Insts :
    (/\ spc[i] \in {"wait", "nil"}
     /\ ThresholdReached(Failures, ConsecutiveFailures)
     /\ NoExternalStop
     /\ JobQuiescent)
    => spc[i] = "nil" /\ state = ScheduleStopped

\* C5: with a threshold N > 0 and a callback that failed at every
\* invocation, a job that was started once, that nobody stopped from outside
\* and whose Start has returned ends with Failures = N, Runs = Failures and
\* state Stopped.
C5_ExactlyNFailures ==
  \A i \in Insts :
    (/\ spc[i] = "nil"
     /\ \A j \in Insts : Started(j) => j = i
     /\ Threshold > 0
     /\ NoExternalStop
     /\ \A k \in 1 .. Len(runtimes) : runtimes[k].Error
     /\ JobQuiescent)
    => Failures = Threshold /\ Runs = Failures /\ state = ScheduleStopped

\* C6: with MaxConcurrent = N > 0, 0 <= Running <= N, and Running = 0
\* whenever no invocation is in progress.
C6_RunningBounded ==
  options.MaxConcurrent > 0 =>
    /\ 0 <= Running /\ Running <= options.MaxConcurrent
    /\ (\A t \in Ticks : ~InProgress(t)) => Running = 0

\* C7: a Start call that finds the job already started (previouslyStarted is
\* set, by start() or by ScheduleFunc) or already Stopped when it is made
\* goes to its error return, never into start(), and none of its steps
\* changes the state, the counters or the history, or starts a goroutine.
C7_StartRefused ==
  [][\A c \in Starters :
       (startPre'[c] /\ spc'[c] # spc[c]) =>
         /\ spc'[c] \in {"chkPrev", "err"}
         /\ spc'[c] = "chkPrev" => previouslyStarted
         /\ UNCHANGED <<jobVars, ictx, wpc, dpc, kpc, invVars>>]_vars

\* a Start call on a started job has returned its error
C7_Witness ==
  \E c \in Starters : startPre[c] /\ spc[c] = "err" /\ state # ScheduleStopped

\* C8: at most one call runs start(), whatever the number of racing Start
\* calls on a job made by NewScheduledJob.
C8_OneStart ==
  Cardinality({i \in Insts : Started(i)}) <= 1

\* C9: Suspend returns true exactly when the state was Started and then
\* leaves it Suspended, Resume returns true exactly when the state was
\* Suspended and then leaves it Started; otherwise each returns false and
\* leaves the state unchanged.
C9_SuspendResume ==
  [][/\ Suspend =>
          /\ casRet' = (state = ScheduleStarted)
          /\ state' = IF state = ScheduleStarted THEN ScheduleSuspended
                      ELSE state
     /\ Resume =>
          /\ casRet' = (state = ScheduleSuspended)
          /\ state' = IF state = ScheduleSuspended THEN ScheduleStarted
                      ELSE state]_vars

\* Suspend and then Resume have both succeeded on a running job
C9_Witness ==
  /\ calls = 2 /\ casRet /\ state = ScheduleStarted
  /\ \A c \in Starters : spc[c] = "idle"
  /\ \A p \in Stoppers : ppc[p] = "idle"
  /\ ~ctxDone /\ ctor = "Func"

\* C10: at most one Stop call on a job returns true.
C10_OneStopReturnsTrue ==
  Cardinality({p \in Stoppers : ppc[p] = "ret" /\ pret[p]}) <= 1

\* C11: once a Stop call on a job running since ScheduleFunc has returned, no
\* tick is dispatched to execute any more (by a new goroutine or by the
\* hand-off to a worker), so that Runs counts no further invocation.
C11_NoRunAfterStop ==
  [][(ctor = "Func" /\ \E p \in Stoppers : ppc[p] = "ret")
       => \A t \in Ticks : ipc[t] = "none" => ipc'[t] = "none"]_vars

\* the records of the history made for tick t
RecordsOf(t) == {k \in 1 .. Len(runtimes) : runtimes[k].Start = t}

\* the records of the history with a non-nil error
FailedRecords == {k \in 1 .. Len(runtimes) : runtimes[k].Error}

\* C12: an invocation that has run its append has exactly one record in the
\* history, with Start the tick and Error the callback's result, and any
\* other tick has none; whenever no invocation is in progress,
\* len(runtimes) = Runs and Failures = the number of records with an error.
C12_OneRecordPerInvocation ==
  /\ \A t \in Ticks :
       IF ipc[t] \in {"dec", "done"}
       THEN /\ Cardinality(RecordsOf(t)) = 1
            /\ \A k \in RecordsOf(t) : runtimes[k].Error = ierr[t]
       ELSE RecordsOf(t) = {}
  /\ (\A t \in Ticks : ~InProgress(t)) =>
       /\ Len(runtimes) = Runs
       /\ Failures = Cardinality(FailedRecords)

\* two invocations have completed, one of them failed
C12_Witness ==
  /\ \A t \in Ticks : ipc[t] = "done"
  /\ Len(runtimes) = 2 /\ Failures = 1 /\ Runs = 2

\* C15: when the job is Stopped and none of its goroutines and none of the
\* calls made on it can take a step any more, its ticker has been told to
\* stop: the ticker's context is cancelled or a stop token is pending (the
\* two loops of the ticker return only when that context is done).
C15_TickerStopped ==
  (state = ScheduleStopped /\ JobQuiescent) =>
    (TickerCtxDone \/ tkStop = 1)

\* ================= the history as a Go slice (job.go) =================
\* The invocations of one running job, each taken as one step (s.mu
\* serialises everything between the callback and the append), with
\* s.runtimes as a slice header over shared backing arrays.

MaxRuns == 4          \* invocations of the callback
MaxN == 2             \* largest failure threshold
MaxSnaps == 2         \* Runtimes() calls

\* the zero value of an array element
NilRuntime == [Start |-> 0, Error |-> FALSE]

\* the elements a slice header gives access to
ViewIn(hp, h) == IF h.arr = 0 THEN <<>> ELSE SubSeq(hp[h.arr], 1, h.len)
View(h) == ViewIn(heap, h)

\* append that shifts the elements of the backing array to put x first
GoAppendShift(hp, h, x) ==
  IF h.len < h.cap
  THEN [heap |-> [hp EXCEPT ![h.arr] =
                    [k \in 1 .. h.cap |->
                       IF k = 1 THEN x
                       ELSE IF k <= h.len + 1 THEN hp[h.arr][k - 1]
                       ELSE NilRuntime]],
        slice |-> [h EXCEPT !.len = h.len + 1]]
  ELSE LET newcap == IF h.cap = 0 THEN 1 ELSE 2 * h.cap
           old == ViewIn(hp, h)
       IN [heap |-> Append(hp, [k \in 1 .. newcap |->
                                  IF k = 1 THEN x
                                  ELSE IF k <= h.len + 1 THEN old[k - 1]
                                  ELSE NilRuntime]),
           slice |-> [arr |-> Len(hp) + 1, len |-> h.len + 1,
                      cap |-> newcap]]

\* append(s.runtimes, runtime): in place when the capacity allows it, else
\* into a new array of twice the capacity that gets a copy of the elements
GoAppend(hp, h, x) ==
  IF h.len < h.cap
  THEN [heap |-> [hp EXCEPT ![h.arr][h.len + 1] = x],
        slice |-> [h EXCEPT !.len = h.len + 1]]
  ELSE LET newcap == IF h.cap = 0 THEN 1 ELSE 2 * h.cap
           old == ViewIn(hp, h)
       IN [heap |-> Append(hp, [k \in 1 .. newcap |->
                                  IF k <= h.len THEN old[k]
                                  ELSE IF k = h.len + 1 THEN x
                                  ELSE NilRuntime]),
           slice |-> [arr |-> Len(hp) + 1, len |-> h.len + 1,
                      cap |-> newcap]]

\* a job made by ScheduleFunc whose start() has spawned the stop-watcher and
\* the dispatch loop (MaxConcurrent = 0)
HistoryInit ==
  /\ ctor = "Func"
  /\ options \in [MaxConcurrent : {0},
                  MaxFailures : 0 .. MaxN,
                  MaxConsecutiveFailures : 0 .. MaxN]
  /\ ctxDone = FALSE
  /\ calls = 0
  /\ state = ScheduleStarted
  /\ previouslyStarted = TRUE
  /\ stopCh = 0
  /\ mu = FALSE
  /\ Runs = 0 /\ Running = 0 /\ Failures = 0 /\ ConsecutiveFailures = 0
  /\ runtimes = <<>>
  /\ spc = [i \in Insts |-> IF i = 0 THEN "wait" ELSE "idle"]
  /\ startPre = [i \in Insts |-> FALSE]
  /\ ictx = [i \in Insts |-> FALSE]
  /\ wpc = [i \in Insts |-> IF i = 0 THEN "sel" ELSE "none"]
  /\ dpc = [i \in Insts |-> IF i = 0 THEN Idle ELSE [pc |-> "none", rt |-> 0]]
  /\ kpc = [i \in Insts |-> [w \in Workers |-> [pc |-> "none", rt |-> 0]]]
  /\ ipc = [t \in Ticks |-> "none"]
  /\ iown = [t \in Ticks |-> 0]
  /\ ierr = [t \in Ticks |-> FALSE]
  /\ ppc = [p \in Stoppers |-> "idle"]
  /\ pret = [p \in Stoppers |-> FALSE]
  /\ casRet = FALSE
  /\ tkCancel = FALSE /\ tkStop = 0 /\ tkWatch = "sel"
  /\ tsPc = "loop" /\ rPc = [pc |-> "sel", rt |-> 0] /\ clock = 0
  /\ ticksSeen = 0 /\ ticksSent = 0 /\ ticksDropped = 0
  /\ recvSuspended = {} /\ discarded = {}
  /\ AuxInit

\* execute without the reset of ConsecutiveFailures on success
executeNoReset ==
  /\ dpc[0].pc = "sel"
  /\ Runs < MaxRuns
  /\ Runs' = Runs + 1
  /\ \E err \in BOOLEAN :
       /\ IF ~err
          THEN UNCHANGED <<Failures, ConsecutiveFailures, stopCh>>
          ELSE /\ Failures' = Failures + 1
               /\ ConsecutiveFailures' = ConsecutiveFailures + 1
               /\ stopCh' = IF ThresholdReached(Failures + 1,
                                                ConsecutiveFailures + 1)
                            THEN TrySend(stopCh) ELSE stopCh
       /\ LET r == [Start |-> Runs + 1, Error |-> err]
              a == GoAppend(heap, slice, r)
          IN /\ heap' = a.heap
             /\ slice' = a.slice
             /\ runtimes' = Append(runtimes, r)
  /\ UNCHANGED <<cfgVars, timeVars, parseVars, schedVars, snaps, ctxDone, calls, state,
                 previouslyStarted, mu, Running, startVars, invVars,
                 callVars, tickerVars, ghostVars>>

\* the dispatch loop receives a tick and execute(rt) runs to its end: the
\* counters, the callback, the stop request and the append
execute ==
  /\ dpc[0].pc = "sel"
  /\ Runs < MaxRuns
  /\ Runs' = Runs + 1
  /\ \E err \in BOOLEAN :
       /\ IF ~err
          THEN /\ ConsecutiveFailures' = 0
               /\ UNCHANGED <<Failures, stopCh>>
          ELSE /\ Failures' = Failures + 1
               /\ ConsecutiveFailures' = ConsecutiveFailures + 1
               /\ stopCh' = IF ThresholdReached(Failures + 1,
                                                ConsecutiveFailures + 1)
                            THEN TrySend(stopCh) ELSE stopCh
       /\ LET r == [Start |-> Runs + 1, Error |-> err]
              a == GoAppend(heap, slice, r)
          IN /\ heap' = a.heap
             /\ slice' = a.slice
             /\ runtimes' = Append(runtimes, r)
  /\ UNCHANGED <<cfgVars, timeVars, parseVars, schedVars, snaps, ctxDone, calls, state,
                 previouslyStarted, mu, Running, startVars, invVars,
                 callVars, tickerVars, ghostVars>>

\* Runtimes: s.mu.RLock(); return s.runtimes[:] (the same array, len, cap)
Runtimes ==
  /\ Len(snaps) < MaxSnaps
  /\ snaps' = Append(snaps, [hdr |-> slice, val |-> View(slice)])
  /\ UNCHANGED <<cfgVars, timeVars, parseVars, schedVars, heap, slice, ctxDone, calls, jobVars,
                 startVars, invVars, callVars, tickerVars, ghostVars>>

HistoryNext ==
  \/ execute \/ Runtimes
  \/ watch(0) \/ watchStore(0) \/ dispatchCancelled(0) \/ startReturn(0)

HistorySpec == HistoryInit /\ [][HistoryNext]_vars

\* the number of failed records at the end of the history
RECURSIVE TrailingFailures(_)
TrailingFailures(rs) ==
  IF rs = <<>> \/ ~rs[Len(rs)].Error THEN 0
  ELSE 1 + TrailingFailures(SubSeq(rs, 1, Len(rs) - 1))

\* the history holds n failed records in a row
FailuresInARow(rs, n) ==
  \E k \in 1 .. Len(rs) - n + 1 : \A j \in k .. k + n - 1 : rs[j].Error

\* the job has asked itself to stop, or has stopped
SelfStopped == stopCh = 1 \/ wpc[0] # "sel" \/ state = ScheduleStopped

\* C13: ConsecutiveFailures is the number of failed invocations since the
\* last successful one (0 after a success); with only
\* MaxConsecutiveFailures = N set, the job asks itself to stop only when N
\* invocations in a row have failed.
C13_ConsecutiveFailures ==
  /\ ConsecutiveFailures = TrailingFailures(runtimes)
  /\ (/\ options.MaxFailures = 0
      /\ options.MaxConsecutiveFailures > 0
      /\ SelfStopped)
     => FailuresInARow(runtimes, options.MaxConsecutiveFailures)

\* N = 2: a failure, a success that resets the counter, another failure,
\* and the job still runs
C13_Witness ==
  /\ options.MaxFailures = 0 /\ options.MaxConsecutiveFailures = 2
  /\ Len(runtimes) = 3
  /\ runtimes[1].Error /\ ~runtimes[2].Error /\ runtimes[3].Error
  /\ ConsecutiveFailures = 1 /\ Failures = 2
  /\ ~SelfStopped

IsPrefix(a, b) == Len(a) <= Len(b) /\ SubSeq(b, 1, Len(a)) = a

\* C14: a slice returned by Runtimes() keeps the length and the elements it
\* had when it was returned, whatever invocations complete afterwards, and
\* it is a prefix of every later snapshot and of the history.
C14_SnapshotStable ==
  /\ View(slice) = runtimes
  /\ \A k \in 1 .. Len(snaps) :
       /\ View(snaps[k].hdr) = snaps[k].val
       /\ IsPrefix(snaps[k].val, View(slice))
       /\ \A j \in 1 .. k - 1 : IsPrefix(snaps[j].val, snaps[k].val)

\* a snapshot that shares its backing array with the history, after an
\* invocation has appended in place to that array
C14_Witness ==
  \E k \in 1 .. Len(snaps) :
    /\ snaps[k].hdr.len > 0
    /\ snaps[k].hdr.arr = slice.arr
    /\ snaps[k].hdr.len < slice.len

\* ===================== the timed ticker (ticker.go) =====================
\* A Ticker made by a direct NewTicker(ctx, schedule, sendTimeout) call, with
\* the wall clock in minutes.  A goroutine that can take a step takes it
\* before the minute changes; a sleep, a timeout and a blocked channel
\* operation wait for the clock or for their partner.

MaxMinutes == 4       \* minutes of wall clock after the NewTicker call
MaxTimeout == 2       \* largest sendTimeout, in minutes
MaxStops == 2         \* Ticker.Stop calls

\* the variables of the job, and the tick counter of the untimed ticker
jobSide == <<cfgVars, histVars, parseVars, schedVars, calls, jobVars, startVars, invVars, callVars,
             ghostVars, clock>>
tickerCfg == <<schedule, sendTimeout>>

\* Schedule.nextNoTruncate: the first matching minute strictly after t (a
\* minute past the horizon when there is none within it)
NextMatch(t) ==
  IF \E m \in schedule : m > t
  THEN CHOOSE m \in schedule : m > t /\ \A k \in schedule : k > t => m <= k
  ELSE MaxMinutes + 1

\* NewTicker has been called at minute 0: its stop watcher and
\* tickOnSchedule are spawned, the constructor waits for the initial tick
TickerInit ==
  /\ ctor = "Ticker"
  /\ options = [MaxConcurrent |-> 0, MaxFailures |-> 0,
                MaxConsecutiveFailures |-> 0]
  /\ ctxDone = FALSE
  /\ calls = 0
  /\ state = 0
  /\ previouslyStarted = FALSE
  /\ stopCh = 0
  /\ mu = FALSE
  /\ Runs = 0 /\ Running = 0 /\ Failures = 0 /\ ConsecutiveFailures = 0
  /\ runtimes = <<>>
  /\ spc = [i \in Insts |-> "none"]
  /\ startPre = [i \in Insts |-> FALSE]
  /\ ictx = [i \in Insts |-> FALSE]
  /\ wpc = [i \in Insts |-> "none"]
  /\ dpc = [i \in Insts |-> [pc |-> "none", rt |-> 0]]
  /\ kpc = [i \in Insts |-> [w \in Workers |-> [pc |-> "none", rt |-> 0]]]
  /\ ipc = [t \in Ticks |-> "none"]
  /\ iown = [t \in Ticks |-> 0]
  /\ ierr = [t \in Ticks |-> FALSE]
  /\ ppc = [p \in Stoppers |-> "none"]
  /\ pret = [p \in Stoppers |-> FALSE]
  /\ casRet = FALSE
  /\ recvSuspended = {} /\ discarded = {}
  /\ HistInit /\ ParseInit /\ SchedInit
  /\ tkCancel = FALSE /\ tkStop = 0 /\ tkWatch = "sel"
  /\ tsPc = "warm" /\ rPc = [pc |-> "none", rt |-> 0] /\ clock = 0
  /\ ticksSeen = 0 /\ ticksSent = 0 /\ ticksDropped = 0
  /\ now = 0
  /\ schedule \in SUBSET (0 .. MaxMinutes)
  /\ sendTimeout \in 0 .. MaxTimeout
  /\ ntPc = "recv"
  /\ nextTime = 0 /\ wake = 0 /\ nt = 0 /\ deadline = 0
  /\ seen = <<>> /\ received = <<>> /\ stops = 0 /\ tickLate = FALSE

\* NewTicker with t.run(ctx) spawned before the initial tick is received:
\* run takes the tick of tickOnSchedule's first send
NewTickerInitRun ==
  /\ ntPc = "recv" /\ tsPc = "warm"
  /\ tsPc' = "next"
  /\ rPc' = [pc |-> "send", rt |-> now]
  /\ deadline' = now + sendTimeout
  /\ ntPc' = "ret"
  /\ UNCHANGED <<jobSide, tickerCfg, ctxDone, tkCancel, tkStop, tkWatch,
                 ticksSeen, ticksSent, ticksDropped, now, nextTime, wake,
                 nt, seen, received, stops, tickLate>>

\* NewTicker: init := <-t.tickCh, sent by the first line of tickOnSchedule
\* (t.tickCh <- time.Now())
NewTickerInit ==
  /\ ntPc = "recv" /\ tsPc = "warm"
  /\ tsPc' = "next"
  /\ ntPc' = "run"
  /\ UNCHANGED <<jobSide, tickerCfg, ctxDone, tkCancel, tkStop, tkWatch,
                 rPc, ticksSeen, ticksSent, ticksDropped, now, nextTime,
                 wake, nt, deadline, seen, received, stops, tickLate>>

\* NewTicker: go t.run(ctx); wg.Wait(); return t
NewTickerRun ==
  /\ ntPc = "run"
  /\ rPc' = Idle
  /\ ntPc' = "ret"
  /\ UNCHANGED <<jobSide, tickerCfg, ctxDone, tkCancel, tkStop, tkWatch,
                 tsPc, ticksSeen, ticksSent, ticksDropped, now, nextTime,
                 wake, nt, deadline, seen, received, stops, tickLate>>

\* tickOnSchedule: nextTime := t.schedule.nextNoTruncate(now truncated to
\* the minute)
tickOnScheduleNext ==
  /\ tsPc = "next"
  /\ nextTime' = NextMatch(now)
  /\ tsPc' = "loop"
  /\ UNCHANGED <<jobSide, tickerCfg, ctxDone, tkCancel, tkStop, tkWatch,
                 rPc, ticksSeen, ticksSent, ticksDropped, now, ntPc, wake,
                 nt, deadline, seen, received, stops, tickLate>>

\* tickOnSchedule: for ctx.Err() == nil { now := time.Now(); if
\* timesEqualToMinute(now, nextTime) { t.tick(ctx) ... } ... }
tickOnScheduleLoop ==
  /\ tsPc = "loop"
  /\ tsPc' = IF TickerCtxDone THEN "done"
             ELSE IF now = nextTime THEN "call" ELSE "nap"
  /\ UNCHANGED <<jobSide, tickerCfg, ctxDone, tkCancel, tkStop, tkWatch,
                 rPc, ticksSeen, ticksSent, ticksDropped, now, ntPc,
                 nextTime, wake, nt, deadline, seen, received, stops,
                 tickLate>>

\* tick is entered: nt := time.Now()
tickCall ==
  /\ tsPc = "call"
  /\ nt' = now
  /\ tickLate' = TickerCtxDone
  /\ tsPc' = "tick"
  /\ UNCHANGED <<jobSide, tickerCfg, ctxDone, tkCancel, tkStop, tkWatch,
                 rPc, ticksSeen, ticksSent, ticksDropped, now, ntPc,
                 nextTime, wake, deadline, seen, received, stops>>

\* tick: case t.tickCh <- nt, received by run (case currentTick :=
\* <-t.tickCh), which makes tctx with the timeout sendTimeout
tickSend ==
  /\ tsPc = "tick" /\ rPc.pc = "sel"
  /\ seen' = Append(seen, nt)
  /\ rPc' = [pc |-> "send", rt |-> nt]
  /\ deadline' = now + sendTimeout
  /\ tsPc' = "seen"
  /\ UNCHANGED <<jobSide, tickerCfg, ctxDone, tkCancel, tkStop, tkWatch,
                 ticksSeen, ticksSent, ticksDropped, now, ntPc, nextTime,
                 wake, nt, received, stops, tickLate>>

\* tick: t.ticksSeen.Add(1); return true
tickSeen ==
  /\ tsPc = "seen"
  /\ ticksSeen' = ticksSeen + 1
  /\ tsPc' = "renext"
  /\ UNCHANGED <<jobSide, tickerCfg, ctxDone, tkCancel, tkStop, tkWatch,
                 rPc, ticksSent, ticksDropped, now, ntPc, nextTime, wake,
                 nt, deadline, seen, received, stops, tickLate>>

\* tick: case <-ctx.Done(): return false
tickDone ==
  /\ tsPc = "tick" /\ TickerCtxDone
  /\ tsPc' = "renext"
  /\ UNCHANGED <<jobSide, tickerCfg, ctxDone, tkCancel, tkStop, tkWatch,
                 rPc, ticksSeen, ticksSent, ticksDropped, now, ntPc,
                 nextTime, wake, nt, deadline, seen, received, stops,
                 tickLate>>

\* tickOnSchedule: after tick, nextTime = nextNoTruncate(time.Now()
\* truncated); then the sleep until one second after the next minute starts
tickOnScheduleSleep ==
  /\ tsPc \in {"renext", "nap"}
  /\ nextTime' = IF tsPc = "renext" THEN NextMatch(now) ELSE nextTime
  /\ wake' = now + 1
  /\ tsPc' = "sleep"
  /\ UNCHANGED <<jobSide, tickerCfg, ctxDone, tkCancel, tkStop, tkWatch,
                 rPc, ticksSeen, ticksSent, ticksDropped, now, ntPc, nt,
                 deadline, seen, received, stops, tickLate>>

\* tickOnSchedule: case <-sleepDone
tickOnScheduleWake ==
  /\ tsPc = "sleep" /\ now >= wake
  /\ tsPc' = "loop"
  /\ UNCHANGED <<jobSide, tickerCfg, ctxDone, tkCancel, tkStop, tkWatch,
                 rPc, ticksSeen, ticksSent, ticksDropped, now, ntPc,
                 nextTime, wake, nt, deadline, seen, received, stops,
                 tickLate>>

\* tickOnSchedule: case <-ctx.Done(): return
tickOnScheduleReturn ==
  /\ tsPc = "sleep" /\ TickerCtxDone
  /\ tsPc' = "done"
  /\ UNCHANGED <<jobSide, tickerCfg, ctxDone, tkCancel, tkStop, tkWatch,
                 rPc, ticksSeen, ticksSent, ticksDropped, now, ntPc,
                 nextTime, wake, nt, deadline, seen, received, stops,
                 tickLate>>

\* run: case <-ctx.Done(): return
runReturn ==
  /\ rPc.pc = "sel" /\ TickerCtxDone
  /\ rPc' = [pc |-> "done", rt |-> 0]
  /\ UNCHANGED <<jobSide, tickerCfg, ctxDone, tkCancel, tkStop, tkWatch,
                 tsPc, ticksSeen, ticksSent, ticksDropped, now, ntPc,
                 nextTime, wake, nt, deadline, seen, received, stops,
                 tickLate>>

\* a consumer receives from Ticker.C (run: case t.C <- currentTick)
consume ==
  /\ ntPc = "ret" /\ rPc.pc = "send"
  /\ received' = Append(received, rPc.rt)
  /\ rPc' = [rPc EXCEPT !.pc = "sent"]
  /\ UNCHANGED <<jobSide, tickerCfg, ctxDone, tkCancel, tkStop, tkWatch,
                 tsPc, ticksSeen, ticksSent, ticksDropped, now, ntPc,
                 nextTime, wake, nt, deadline, seen, stops, tickLate>>

\* runDropped counting the dropped tick as sent
runDroppedAsSent ==
  /\ rPc.pc = "dropped"
  /\ ticksSent' = ticksSent + 1
  /\ rPc' = Idle
  /\ UNCHANGED <<jobSide, tickerCfg, ctxDone, tkCancel, tkStop, tkWatch,
                 tsPc, ticksSeen, ticksDropped, now, ntPc, nextTime, wake,
                 nt, deadline, seen, received, stops, tickLate>>

\* run: t.ticksSent.Add(1); tcancel()
runSent ==
  /\ rPc.pc = "sent"
  /\ ticksSent' = ticksSent + 1
  /\ rPc' = Idle
  /\ UNCHANGED <<jobSide, tickerCfg, ctxDone, tkCancel, tkStop, tkWatch,
                 tsPc, ticksSeen, ticksDropped, now, ntPc, nextTime, wake,
                 nt, deadline, seen, received, stops, tickLate>>

\* run: case <-tctx.Done(): sendTimeout has elapsed, or ctx is done
runTimeout ==
  /\ rPc.pc = "send"
  /\ now >= deadline \/ TickerCtxDone
  /\ rPc' = [rPc EXCEPT !.pc = "dropped"]
  /\ UNCHANGED <<jobSide, tickerCfg, ctxDone, tkCancel, tkStop, tkWatch,
                 tsPc, ticksSeen, ticksSent, ticksDropped, now, ntPc,
                 nextTime, wake, nt, deadline, seen, received, stops,
                 tickLate>>

\* run: t.ticksDropped.Add(1); tcancel()
runDropped ==
  /\ rPc.pc = "dropped"
  /\ ticksDropped' = ticksDropped + 1
  /\ rPc' = Idle
  /\ UNCHANGED <<jobSide, tickerCfg, ctxDone, tkCancel, tkStop, tkWatch,
                 tsPc, ticksSeen, ticksSent, now, ntPc, nextTime, wake, nt,
                 deadline, seen, received, stops, tickLate>>

\* Ticker.Stop: select { case t.stop <- struct{}{}: default: }
TickerStop ==
  /\ ntPc = "ret" /\ stops < MaxStops
  /\ stops' = stops + 1
  /\ tkStop' = TrySend(tkStop)
  /\ UNCHANGED <<jobSide, tickerCfg, ctxDone, tkCancel, tkWatch, tsPc, rPc,
                 ticksSeen, ticksSent, ticksDropped, now, ntPc, nextTime,
                 wake, nt, deadline, seen, received, tickLate>>

\* the steps of the goroutines of the ticker and of its constructor
TickerSteps ==
  \/ NewTickerInit \/ NewTickerRun
  \/ TickerWatchStop \/ TickerWatchCtx
  \/ tickOnScheduleNext \/ tickOnScheduleLoop \/ tickOnScheduleSleep
  \/ tickOnScheduleWake \/ tickOnScheduleReturn
  \/ tickCall \/ tickSend \/ tickSeen \/ tickDone
  \/ runReturn \/ runSent \/ runTimeout \/ runDropped

\* the wall clock reaches the next minute, once no goroutine of the ticker
\* can take a step
Minute ==
  /\ now < MaxMinutes
  /\ ~ENABLED TickerSteps
  /\ now' = now + 1
  /\ UNCHANGED <<jobSide, tickerCfg, ctxDone, tkCancel, tkStop, tkWatch,
                 tsPc, rPc, ticksSeen, ticksSent, ticksDropped, ntPc,
                 nextTime, wake, nt, deadline, seen, received, stops,
                 tickLate>>

TimedNext == TickerSteps \/ consume \/ TickerStop \/ CtxCancel \/ Minute

TickerSpec == TickerInit /\ [][TimedNext]_vars

\* the goroutines of the ticker, each scheduled fairly
tickOnScheduleSteps ==
  \/ tickOnScheduleNext \/ tickOnScheduleLoop \/ tickOnScheduleSleep
  \/ tickOnScheduleWake \/ tickOnScheduleReturn
  \/ tickCall \/ tickSend \/ tickSeen \/ tickDone
runSteps == runReturn \/ runSent \/ runTimeout \/ runDropped

TickerLive ==
  /\ TickerSpec
  /\ WF_vars(NewTickerInit \/ NewTickerRun)
  /\ WF_vars(TickerWatchStop)
  /\ WF_vars(tickOnScheduleSteps)
  /\ WF_vars(runSteps)

\* C16: run never waits for a consumer past the deadline of sendTimeout; a
\* tick whose send timed out is then counted as dropped, exactly once and
\* not as sent, it is not delivered, and run goes back to its receive from
\* tickCh.
C16_DropOnTimeout ==
  /\ [](rPc.pc = "send" => now <= deadline)
  /\ [][/\ (rPc.pc = "send" /\ rPc'.pc = "dropped") =>
              UNCHANGED <<ticksSent, ticksDropped, received>>
        /\ (rPc.pc = "dropped" /\ rPc' # rPc) =>
              /\ ticksDropped' = ticksDropped + 1
              /\ UNCHANGED <<ticksSent, received>>
              /\ rPc'.pc = "sel"]_vars

\* with no consumer, a first tick was dropped and run holds the next one
C16_Witness ==
  /\ ticksDropped = 1 /\ ticksSent = 0 /\ received = <<>>
  /\ rPc.pc = "send" /\ Len(seen) = 2
  /\ ~TickerCtxDone

\* C17: once the context of the ticker is done, no tick is received from
\* Ticker.C any more, and a tick() call made after that does not pass its
\* tick to run (it returns false).
C17_NoTickAfterCancel ==
  [][/\ TickerCtxDone => received' = received
     /\ (tsPc = "tick" /\ tickLate) => tsPc' # "seen"]_vars

TicksOf(m) == {k \in 1 .. Len(seen) : seen[k] = m}
TickPending(m) == tsPc = "tick" /\ nt = m

\* C19: while the ticker runs, no minute gets two ticks, and every matching
\* minute that has passed since NewTicker got its tick (passed to run, or
\* still offered to it).
C19_OneTickPerMinute ==
  /\ \A m \in 0 .. MaxMinutes : Cardinality(TicksOf(m)) <= 1
  /\ (ntPc = "ret" /\ ~TickerCtxDone /\ tkStop = 0 /\ stops = 0) =>
       \A m \in schedule :
         (0 < m /\ m < now) => (TicksOf(m) # {} \/ TickPending(m))

\* C20: NewTicker returns only after tickOnSchedule's initial tick has been
\* sent, and run starts after that tick was taken by the constructor: every
\* tick received from Ticker.C is of a matching minute after the minute of
\* the NewTicker call, the first tick passed to run is of the schedule's
\* next matching minute, and so is the first tick received when none was
\* dropped.
C20_WarmUp ==
  /\ ntPc = "ret" => tsPc # "warm"
  /\ rPc.pc # "none" => tsPc # "warm"
  /\ \A k \in 1 .. Len(received) :
       received[k] \in schedule /\ received[k] > 0
  /\ seen # <<>> => seen[1] = NextMatch(0)
  /\ (received # <<>> /\ ticksDropped = 0 /\ rPc.pc # "dropped") =>
       received[1] = NextMatch(0)

\* the minute of the NewTicker call matches the schedule, and the first
\* tick received is of the next matching minute
C20_Witness ==
  /\ 0 \in schedule
  /\ received # <<>> /\ received[1] = NextMatch(0)
  /\ ticksSent = 1

\* ======================= field.parse (schedule.go) =======================
\* A text is the sequence of its characters.  The fields keep their minimum
\* and get a small maximum, so that a whole calendar cycle can be enumerated.

MaxLen == 4           \* longest field text handed to parse
MinuteMax == 1        \* largest minute of an hour
HourMax == 1          \* largest hour of a day
DayMax == 3           \* largest day of a month
MonthMax == 2         \* largest month of a year
WeekdayMax == 1       \* largest weekday of a week

\* cron expression positions
minuteInd == 0
hourInd == 1
dayInd == 2
monthInd == 3
weekdayInd == 4

\* Cron special characters
\* Any ("*"); the name Any is taken by the TLC module
Wildcard == "*"
ListSeparator == ","
Range == "-"
Step == "/"
Blank == "?"
Last == "L"

\* the job, its ticker and its history, not constructed
NoJob ==
  /\ options = [MaxConcurrent |-> 0, MaxFailures |-> 0,
                MaxConsecutiveFailures |-> 0]
  /\ ctxDone = FALSE /\ calls = 0
  /\ state = 0 /\ previouslyStarted = FALSE /\ stopCh = 0 /\ mu = FALSE
  /\ Runs = 0 /\ Running = 0 /\ Failures = 0 /\ ConsecutiveFailures = 0
  /\ runtimes = <<>>
  /\ spc = [i \in Insts |-> "none"]
  /\ startPre = [i \in Insts |-> FALSE]
  /\ ictx = [i \in Insts |-> FALSE]
  /\ wpc = [i \in Insts |-> "none"]
  /\ dpc = [i \in Insts |-> [pc |-> "none", rt |-> 0]]
  /\ kpc = [i \in Insts |-> [w \in Workers |-> [pc |-> "none", rt |-> 0]]]
  /\ ipc = [t \in Ticks |-> "none"]
  /\ iown = [t \in Ticks |-> 0]
  /\ ierr = [t \in Ticks |-> FALSE]
  /\ ppc = [p \in Stoppers |-> "none"]
  /\ pret = [p \in Stoppers |-> FALSE]
  /\ casRet = FALSE
  /\ tkCancel = FALSE /\ tkStop = 0 /\ tkWatch = "none"
  /\ tsPc = "none" /\ rPc = [pc |-> "none", rt |-> 0] /\ clock = 0
  /\ ticksSeen = 0 /\ ticksSent = 0 /\ ticksDropped = 0
  /\ recvSuspended = {} /\ discarded = {}
  /\ HistInit /\ TimeInit

\* everything but the parser's and the Schedule's variables
progVars == <<cfgVars, histVars, timeVars, ctxDone, calls, jobVars, startVars,
              invVars, callVars, tickerVars, ghostVars>>

Digits == <<"0", "1", "2", "3", "4", "5", "6", "7", "8", "9">>
Lower == <<"a", "b", "c", "d", "e", "f", "g", "h", "i", "j", "k", "l", "m",
           "n", "o", "p", "q", "r", "s", "t", "u", "v", "w", "x", "y", "z">>
Upper == <<"A", "B", "C", "D", "E", "F", "G", "H", "I", "J", "K", "L", "M",
           "N", "O", "P", "Q", "R", "S", "T", "U", "V", "W", "X", "Y", "Z">>

IsDigit(c) == \E d \in 1 .. Len(Digits) : Digits[d] = c
DigitVal(c) == (CHOOSE d \in 1 .. Len(Digits) : Digits[d] = c) - 1

\* strings.ToUpper
ToUpper(s) ==
  [k \in 1 .. Len(s) |->
     IF \E j \in 1 .. Len(Lower) : Lower[j] = s[k]
     THEN Upper[CHOOSE j \in 1 .. Len(Lower) : Lower[j] = s[k]]
     ELSE s[k]]

\* strings.ContainsRune
ContainsRune(s, c) == \E k \in 1 .. Len(s) : s[k] = c

\* strings.Cut: the text before and after the first c
Cut(s, c) ==
  IF ContainsRune(s, c)
  THEN LET k == CHOOSE j \in 1 .. Len(s) :
                  s[j] = c /\ \A h \in 1 .. j - 1 : s[h] # c
       IN [before |-> SubSeq(s, 1, k - 1), after |-> SubSeq(s, k + 1, Len(s)),
           found |-> TRUE]
  ELSE [before |-> s, after |-> <<>>, found |-> FALSE]

\* strings.Split on a one-character separator
RECURSIVE Split(_, _)
Split(s, c) ==
  IF ContainsRune(s, c)
  THEN <<Cut(s, c).before>> \o Split(Cut(s, c).after, c)
  ELSE <<s>>

\* strings.Join with a one-character separator
RECURSIVE Join(_, _)
Join(ss, c) ==
  IF ss = <<>> THEN <<>>
  ELSE IF Len(ss) = 1 THEN ss[1]
  ELSE ss[1] \o <<c>> \o Join(Tail(ss), c)

\* the value of a text made of decimal digits
RECURSIVE DigitsVal(_)
DigitsVal(s) ==
  IF s = <<>> THEN 0
  ELSE 10 * DigitsVal(SubSeq(s, 1, Len(s) - 1)) + DigitVal(s[Len(s)])

\* strconv.Atoi: an optional sign, then at least one decimal digit
Atoi(s) ==
  LET signed == IF s = <<>> THEN FALSE ELSE s[1] \in {"-", "+"}
      body == IF signed THEN Tail(s) ELSE s
      ok == IF body = <<>> THEN FALSE
            ELSE \A k \in 1 .. Len(body) : IsDigit(body[k])
  IN [ok |-> ok,
      val |-> IF ~ok THEN 0
              ELSE IF s[1] = "-" THEN 0 - DigitsVal(body)
              ELSE DigitsVal(body)]

\* field.Min, field.Max: the first and the last of Allowed
Min(f) == IF f \in {dayInd, monthInd} THEN 1 ELSE 0
Max(f) ==
  CASE f = minuteInd -> MinuteMax
    [] f = hourInd -> HourMax
    [] f = dayInd -> DayMax
    [] f = monthInd -> MonthMax
    [] f = weekdayInd -> WeekdayMax

\* field.Allowed
Allowed(f) == [k \in 1 .. Max(f) - Min(f) + 1 |-> Min(f) + k - 1]

\* String representations for months and for weekdays
MonthNames ==
  << <<"J", "A", "N">>, <<"F", "E", "B">>, <<"M", "A", "R">>,
     <<"A", "P", "R">>, <<"M", "A", "Y">>, <<"J", "U", "N">>,
     <<"J", "U", "L">>, <<"A", "U", "G">>, <<"S", "E", "P">>,
     <<"O", "C", "T">>, <<"N", "O", "V">>, <<"D", "E", "C">> >>
WeekdayNames ==
  << <<"S", "U", "N">>, <<"M", "O", "N">>, <<"T", "U", "E">>,
     <<"W", "E", "D">>, <<"T", "H", "U">>, <<"F", "R", "I">>,
     <<"S", "A", "T">> >>

\* field.Conversions, for the values the field allows: v, ok := Conversions[s]
Conversions(f, s) ==
  LET names == IF f = monthInd THEN MonthNames
               ELSE IF f = weekdayInd THEN WeekdayNames ELSE <<>>
      hits == {k \in 1 .. Len(names) :
                 names[k] = s /\ k - 1 + Min(f) <= Max(f)}
  IN [ok |-> hits # {},
      val |-> IF hits = {} THEN 0 ELSE (CHOOSE k \in hits : TRUE) - 1 + Min(f)]

\* what a parse function returns: ([]int, error); a nil slice has no values
NilSlice == [values |-> <<>>, isNil |-> TRUE, err |-> FALSE]
Failure == [values |-> <<>>, isNil |-> TRUE, err |-> TRUE]
Values(vs) == [values |-> vs, isNil |-> FALSE, err |-> FALSE]

\* slices.Sort
Sort(vs) == SortSeq(vs, LAMBDA a, b : a < b)

\* the loop of slices.Compact on the array of s, with Go's indices i and k:
\* if s[k] != s[k-1] { if i != k { s[i] = s[k] }; i++ }
RECURSIVE CompactLoop(_, _, _)
CompactLoop(s, i, k) ==
  IF k >= Len(s) THEN [arr |-> s, len |-> i]
  ELSE IF s[k + 1] # s[k]
  THEN CompactLoop([s EXCEPT ![i + 1] = s[k + 1]], i + 1, k + 1)
  ELSE CompactLoop(s, i, k + 1)

\* slices.Compact: the array after the call and the length of the slice it
\* returns; the elements beyond that length are zeroed or left as they are
Compact(s, clear) ==
  IF Len(s) < 2 THEN [arr |-> s, len |-> Len(s)]
  ELSE LET c == CompactLoop(s, 1, 1)
       IN [arr |-> [j \in 1 .. Len(s) |->
                      IF clear /\ j > c.len THEN 0 ELSE c.arr[j]],
           len |-> c.len]

\* the function deferred by parse: slices.Sort(values) and
\* values = slices.Compact(values) work on the array of the slice that the
\* return statement has already copied to the caller, which keeps its length
Deferred(r) ==
  IF r.isNil THEN r
  ELSE [r EXCEPT !.values = Compact(Sort(r.values), clearTail).arr]

\* stepValues counting from the n-th value: the first value of the range is
\* left out unless the step is 1
stepValuesFromNth(values, step) ==
  LET RECURSIVE Pick(_)
      Pick(k) == IF k > Len(values) THEN <<>>
                 ELSE IF k % step = 0 THEN <<values[k]>> \o Pick(k + 1)
                 ELSE Pick(k + 1)
  IN Pick(1)

\* stepValues: every step-th value, starting with the first
stepValues(values, step) ==
  LET RECURSIVE Pick(_)
      Pick(k) == IF k > Len(values) THEN <<>>
                 ELSE IF (k - 1) % step = 0 THEN <<values[k]>> \o Pick(k + 1)
                 ELSE Pick(k + 1)
  IN Pick(1)

RECURSIVE parse(_, _)
RECURSIVE parseStep(_, _, _)
RECURSIVE parseRange(_, _, _)
RECURSIVE parseList(_, _)

\* field.parseStep
parseStep(f, stepRange, step) ==
  IF stepRange = <<>> \/ step = <<>> THEN Failure
  ELSE IF ~Atoi(step).ok THEN Failure
  ELSE IF Atoi(step).val < 1 THEN Failure
  ELSE LET stepRangeValues == parse(f, stepRange)
       IN IF stepRangeValues.err THEN Failure
          ELSE LET base == IF Len(stepRangeValues.values) = 1
                           THEN stepRangeValues.values \o
                                SelectSeq(Allowed(f), LAMBDA av :
                                            av > stepRangeValues.values[1])
                           ELSE stepRangeValues.values
                   values == stepValues(base, Atoi(step).val)
               IN IF Len(values) = 1 THEN Failure ELSE Values(values)

\* field.parseRange
parseRange(f, beforeRange, afterRange) ==
  IF afterRange = <<>> THEN Failure
  ELSE LET startMin == parse(f, beforeRange)
       IN IF startMin.err \/ startMin.isNil \/ Len(startMin.values) > 1
          THEN Failure
          ELSE LET endMin == parse(f, afterRange)
               IN IF endMin.err \/ endMin.isNil \/ Len(endMin.values) > 1
                  THEN Failure
                  ELSE IF Len(startMin.values) = 0 \/ Len(endMin.values) = 0
                  THEN Failure
                  ELSE IF startMin.values[1] >= endMin.values[1] THEN Failure
                  ELSE Values([k \in 1 .. endMin.values[1]
                                            - startMin.values[1] + 1 |->
                                 startMin.values[1] + k - 1])

\* field.parseList
parseList(f, s) ==
  LET items == Split(s, ListSeparator)
      RECURSIVE Collect(_)
      Collect(k) ==
        IF k > Len(items) THEN Values(<<>>)
        ELSE LET sv == parse(f, items[k])
             IN IF sv.err THEN Failure
                ELSE LET rest == Collect(k + 1)
                     IN IF rest.err THEN Failure
                        ELSE Values(sv.values \o rest.values)
  IN Collect(1)

\* field.parse
parse(f, s0) ==
  IF s0 = <<>> THEN Failure
  ELSE IF s0 = <<Blank>> /\ f \notin {dayInd, monthInd, weekdayInd}
  THEN Failure
  ELSE IF s0 \in {<<Wildcard>>, <<Blank>>} THEN Deferred(Values(Allowed(f)))
  ELSE LET s == ToUpper(s0)
           m == Atoi(s)
       IN IF Conversions(f, s).ok
          THEN Deferred(Values(<<Conversions(f, s).val>>))
          ELSE IF m.ok
          THEN IF m.val < Min(f) \/ m.val > Max(f) THEN Failure
               ELSE Deferred(Values(<<m.val>>))
          ELSE IF ~(ContainsRune(s, ListSeparator) \/ ContainsRune(s, Range)
                     \/ ContainsRune(s, Step) \/ ContainsRune(s, Last))
          THEN Failure
          ELSE IF ContainsRune(s, ListSeparator)
          THEN Deferred(parseList(f, s))
          ELSE IF ContainsRune(s, Step)
          THEN Deferred(parseStep(f, Cut(s, Step).before, Cut(s, Step).after))
          ELSE IF ContainsRune(s, Range)
          THEN Deferred(parseRange(f, Cut(s, Range).before,
                                   Cut(s, Range).after))
          ELSE NilSlice

\* ---- the parser alone: one call of parse on a field and a text ----

Alphabet == {"0", "1", "2", "3", Wildcard, ListSeparator, Range, Step, Blank, Last}

\* texts with letters: names of months and weekdays, in upper and lower case
NamedTexts ==
  {MonthNames[1], MonthNames[2], MonthNames[7], WeekdayNames[1],
   WeekdayNames[2], <<"j", "a", "n">>, <<"l">>, <<"x">>,
   <<"1", "-", "F", "E", "B">>}

\* steps over a range and over a name, which are longer than MaxLen
StepTexts ==
  {<<a, Range, b, Step, n>> : a \in {"1", "2"}, b \in {"1", "2", "3"},
                              n \in {"0", "1", "2", "3"}}
    \cup {MonthNames[1] \o <<Step, n>> : n \in {"1", "2"}}

Texts ==
  UNION {[1 .. n -> Alphabet] : n \in 0 .. MaxLen} \cup NamedTexts
    \cup StepTexts

ParseSpecInit ==
  /\ ctor = "parse" /\ NoJob /\ SchedInit
  /\ clearTail \in BOOLEAN
  /\ fld \in minuteInd .. weekdayInd
  /\ text \in Texts
  /\ parsePc = "call"
  /\ parsed = NilSlice

\* values, err := f.parse(text)
fieldParse ==
  /\ parsePc = "call"
  /\ parsed' = parse(fld, text)
  /\ parsePc' = "done"
  /\ UNCHANGED <<progVars, schedVars, clearTail, fld, text>>

ParseSpec == ParseSpecInit /\ [][fieldParse]_vars

\* vs is strictly ascending (hence free of duplicates)
StrictlyAscending(vs) == \A k \in 1 .. Len(vs) - 1 : vs[k] < vs[k + 1]

\* every value of vs is one the field allows
WithinField(f, vs) == \A k \in 1 .. Len(vs) : Min(f) <= vs[k] /\ vs[k] <= Max(f)

\* C25: for every field and every text that parse accepts, lists with
\* repeated or overlapping items included, the sequence parse returns is
\* strictly ascending, free of duplicates and within the field's [min,max].
C25_ParseSortedUnique ==
  (parsePc = "done" /\ ~parsed.err) =>
    StrictlyAscending(parsed.values) /\ WithinField(fld, parsed.values)

\* ======================= Schedule (schedule.go) =======================
\* A time is an instant, counted in seconds, and the zone it is expressed
\* in, given by its offset from UTC in minutes.  The calendar keeps the shape
\* of the real one with fewer and shorter units: months of DayMax days,
\* February one day shorter, weeks running independently of the months.

SecondsPerMinute == 2 \* seconds of a minute
MaxOps == 2           \* calls made on one Schedule

\* month indices
januaryInd == 1
februaryInd == 2
decemberInd == MonthMax

MinutesPerHour == MinuteMax + 1
HoursPerDay == HourMax + 1
MinutesPerDay == MinutesPerHour * HoursPerDay
DaysPerWeek == WeekdayMax + 1

\* the days of month mo
DaysIn(mo) == IF mo = februaryInd THEN DayMax - 1 ELSE DayMax

\* the days of the year before month mo
RECURSIVE DaysBefore(_)
DaysBefore(mo) == IF mo <= 1 THEN 0 ELSE DaysBefore(mo - 1) + DaysIn(mo - 1)

DaysPerYear == DaysBefore(MonthMax + 1)

\* the minutes after which minute, hour, day, month and weekday all repeat
Period == DaysPerYear * DaysPerWeek * MinutesPerDay

\* time.UTC, a zone one hour east of it, and a zone with daylight saving
\* time: on UTC in winter, one hour east of it in summer.  A zone without
\* daylight saving time is named by its offset in minutes.
UTC == 0
DstZone == 0 - 1
Zones == {UTC, MinutesPerHour, DstZone}

\* summer time begins one hour into the last day of January (that day is an
\* hour short) and ends one hour into the first day of February, at the same
\* instants every year
MinutesPerYear == DaysPerYear * MinutesPerDay
SummerStart == (DaysIn(januaryInd) - 1) * MinutesPerDay + MinutesPerHour
SummerEnd == DaysIn(januaryInd) * MinutesPerDay + MinutesPerHour
InSummer(m) ==
  SummerStart <= m % MinutesPerYear /\ m % MinutesPerYear < SummerEnd

\* the offset of zone z from UTC, in minutes, at m minutes after the epoch
Offset(z, m) ==
  IF z = DstZone THEN (IF InSummer(m) THEN MinutesPerHour ELSE 0) ELSE z

\* the minutes from the epoch to the wall-clock reading of t in its zone
Wall(t) ==
  (t.sec \div SecondsPerMinute) + Offset(t.zone, t.sec \div SecondsPerMinute)
DayCount(t) == Wall(t) \div MinutesPerDay

\* t.Minute(), t.Hour(), t.Weekday(), t.Year(), t.Month(), t.Day()
MinuteOf(t) == Wall(t) % MinutesPerHour
HourOf(t) == (Wall(t) \div MinutesPerHour) % HoursPerDay
WeekdayOf(t) == DayCount(t) % DaysPerWeek
YearOf(t) == DayCount(t) \div DaysPerYear
MonthOf(t) ==
  CHOOSE mo \in 1 .. MonthMax :
    /\ DaysBefore(mo) <= DayCount(t) % DaysPerYear
    /\ DayCount(t) % DaysPerYear < DaysBefore(mo + 1)
DayOf(t) == (DayCount(t) % DaysPerYear) - DaysBefore(MonthOf(t)) + 1

\* t.In(loc), t.Truncate(time.Minute), t.Add(n * time.Minute)
In(t, z) == [sec |-> t.sec, zone |-> z]
Truncate(t) == [sec |-> t.sec - (t.sec % SecondsPerMinute), zone |-> t.zone]
Add(t, n) == [sec |-> t.sec + n * SecondsPerMinute, zone |-> t.zone]

\* time.Date(year, month, day, hour, min, 0, 0, loc); a month beyond
\* December is carried into the year
Date(year, month, day, hour, min, z) ==
  LET y == year + ((month - 1) \div MonthMax)
      mo == ((month - 1) % MonthMax) + 1
      wall == ((y * DaysPerYear + DaysBefore(mo) + day - 1) * HoursPerDay
                 + hour) * MinutesPerHour + min
      \* the offset in force at the instant wall, taken as UTC; if the instant
      \* it gives lies across a transition, the offset in force there
      guess == wall - Offset(z, wall)
      lo == IF guess < wall THEN guess ELSE wall
      hi == IF guess < wall THEN wall ELSE guess
      valid == \A k \in lo .. hi : Offset(z, k) = Offset(z, wall)
      offset == IF valid THEN Offset(z, wall) ELSE Offset(z, guess)
  IN [sec |-> (wall - offset) * SecondsPerMinute, zone |-> z]

\* Cron macros
Yearly == <<"@", "y", "e", "a", "r", "l", "y">>
Annually == <<"@", "a", "n", "n", "u", "a", "l", "l", "y">>
Monthly == <<"@", "m", "o", "n", "t", "h", "l", "y">>
Weekly == <<"@", "w", "e", "e", "k", "l", "y">>
Daily == <<"@", "d", "a", "i", "l", "y">>
Midnight == <<"@", "m", "i", "d", "n", "i", "g", "h", "t">>
Hourly == <<"@", "h", "o", "u", "r", "l", "y">>

\* cronShortcut: cs, ok := cronShortcut[cron]
cronShortcut(c) ==
  CASE c \in {Yearly, Annually} ->
       [ok |-> TRUE, cs |-> <<"0", " ", "0", " ", "1", " ", "1", " ", "*">>]
    [] c = Monthly ->
       [ok |-> TRUE, cs |-> <<"0", " ", "0", " ", "1", " ", "*", " ", "*">>]
    [] c = Weekly ->
       [ok |-> TRUE, cs |-> <<"0", " ", "0", " ", "*", " ", "*", " ", "0">>]
    [] c \in {Daily, Midnight} ->
       [ok |-> TRUE, cs |-> <<"0", " ", "0", " ", "*", " ", "*", " ", "*">>]
    [] c = Hourly ->
       [ok |-> TRUE, cs |-> <<"0", " ", "*", " ", "*", " ", "*", " ", "*">>]
    [] OTHER -> [ok |-> FALSE, cs |-> <<>>]

\* strings.TrimSpace
RECURSIVE TrimSpace(_)
TrimSpace(s) ==
  IF s = <<>> THEN s
  ELSE IF s[1] = " " THEN TrimSpace(Tail(s))
  ELSE IF s[Len(s)] = " " THEN TrimSpace(SubSeq(s, 1, Len(s) - 1))
  ELSE s

\* Schedule.validate: the parsed values of the five fields, and whether one
\* of them was refused
validate(values, l) ==
  LET anyM == values[minuteInd + 1] = <<Wildcard>>
      anyH == values[hourInd + 1] = <<Wildcard>>
      anyD == values[dayInd + 1] \in {<<Wildcard>>, <<Blank>>}
      anyMo == values[monthInd + 1] \in {<<Wildcard>>, <<Blank>>}
      anyW == values[weekdayInd + 1] \in {<<Wildcard>>, <<Blank>>}
      minutes == IF anyM THEN NilSlice ELSE parse(minuteInd, values[1])
      hours == IF anyH THEN NilSlice ELSE parse(hourInd, values[2])
      days == IF anyD THEN NilSlice ELSE parse(dayInd, values[3])
      months == IF anyMo THEN NilSlice ELSE parse(monthInd, values[4])
      weekdays == IF anyW THEN NilSlice ELSE parse(weekdayInd, values[5])
  IN [s |-> [isNil |-> FALSE, values |-> values, loc |-> l,
             allowAnyMinute |-> anyM, minutes |-> minutes.values,
             allowAnyHour |-> anyH, hours |-> hours.values,
             allowAnyDay |-> anyD, days |-> days.values,
             allowAnyMonth |-> anyMo, months |-> months.values,
             allowAnyWeekday |-> anyW, weekdays |-> weekdays.values],
      err |-> minutes.err \/ hours.err \/ days.err \/ months.err
                \/ weekdays.err]

\* New(cron, loc): the *Schedule and the error it returns
New(c, l) ==
  LET trimmed == TrimSpace(c)
      expr == IF cronShortcut(trimmed).ok THEN cronShortcut(trimmed).cs
              ELSE trimmed
      values == Split(expr, " ")
  IN IF Len(values) # 5 THEN [s |-> NilSchedule, err |-> TRUE]
     ELSE validate(values, l)

\* Schedule.String
String(s) == Join(s.values, " ")

\* vs holds v
Includes(vs, v) == \E k \in 1 .. Len(vs) : vs[k] = v

\* Schedule.isMinute, isHour, isMonth, isWeekday
isMinute(s, t) == s.allowAnyMinute \/ Includes(s.minutes, MinuteOf(t))
isHour(s, t) == s.allowAnyHour \/ Includes(s.hours, HourOf(t))
isMonth(s, t) == s.allowAnyMonth \/ Includes(s.months, MonthOf(t))
isWeekday(s, t) == s.allowAnyWeekday \/ Includes(s.weekdays, WeekdayOf(t))

\* Schedule.isDay: with "L" as the day, the last day of t's month, found as
\* the day before the first of the next month
isDay(s, t) ==
  \/ s.allowAnyDay
  \/ Includes(s.days, DayOf(t))
  \/ /\ s.values[dayInd + 1] = <<Last>>
     /\ DayOf(Add(Date(YearOf(t), MonthOf(t) + 1, 1, 0, 0, t.zone),
                  0 - MinutesPerDay)) = DayOf(t)

\* Schedule.Matches: the fields of t are read in the zone t is expressed in
Matches(s, t) ==
  isWeekday(s, t) /\ isMonth(s, t) /\ isDay(s, t) /\ isHour(s, t)
    /\ isMinute(s, t)

\* a search that has gone through a whole Period without a match never ends
NoReturn == [returned |-> FALSE, t |-> NoTime]
Return(t) == [returned |-> TRUE, t |-> t]

\* the loop of nextNoTruncate testing t before it adds a minute
RECURSIVE StepForwardFromT(_, _, _)
StepForwardFromT(s, t, n) ==
  IF Matches(s, t) THEN Return(t)
  ELSE IF n + 1 >= Period THEN NoReturn
  ELSE StepForwardFromT(s, Add(t, 1), n + 1)

\* the loop of nextNoTruncate, n minutes after it was entered:
\* for { t = t.Add(time.Minute); if s.Matches(t) { return t } }
RECURSIVE StepForward(_, _, _)
StepForward(s, t, n) ==
  IF Matches(s, Add(t, 1)) THEN Return(Add(t, 1))
  ELSE IF n + 1 >= Period THEN NoReturn
  ELSE StepForward(s, Add(t, 1), n + 1)

\* a yearly jump that lands on the first minute of the year t is in
nextNoTruncateThisYear(s, t) ==
  IF String(s) = cronShortcut(Yearly).cs
  THEN Return(Date(YearOf(t), januaryInd, 1, 0, 0, t.zone))
  ELSE StepForward(s, t, 0)

\* Schedule.nextNoTruncate: the switch on s.String(), then the loop
nextNoTruncate(s, t) ==
  IF String(s) = cronShortcut(Yearly).cs
  THEN Return(Date(YearOf(t) + 1, januaryInd, 1, 0, 0, t.zone))
  ELSE IF String(s) = Monthly
  THEN IF MonthOf(t) = decemberInd
       THEN Return(Date(YearOf(t) + 1, januaryInd, 1, 0, 0, t.zone))
       ELSE Return(Date(YearOf(t), MonthOf(t) + 1, 1, 0, 0, t.zone))
  ELSE StepForward(s, t, 0)

\* Schedule.Next
ScheduleNext(s, t) == nextNoTruncate(s, Truncate(In(t, s.loc)))

\* the loop of Prev, n minutes after it was entered:
\* for { t = t.Add(-time.Minute); if s.Matches(t) { return t } }
RECURSIVE StepBackward(_, _, _)
StepBackward(s, t, n) ==
  IF Matches(s, Add(t, 0 - 1)) THEN Return(Add(t, 0 - 1))
  ELSE IF n + 1 >= Period THEN NoReturn
  ELSE StepBackward(s, Add(t, 0 - 1), n + 1)

\* Prev stepping back from t as given, not truncated to the minute
PrevNoTruncate(s, t) == StepBackward(s, In(t, s.loc), 0)

\* Schedule.Prev
Prev(s, t) == StepBackward(s, Truncate(In(t, s.loc)), 0)

\* ---- the program: New, then calls on the Schedule it returned ----

MinuteTexts == {<<Wildcard>>, <<"0">>, <<Last>>}
HourTexts == {<<Wildcard>>, <<"0">>}
DayTexts == {<<Wildcard>>, <<"1">>, <<"3">>, <<Last>>, <<"1", Last>>}
MonthTexts == {<<Wildcard>>, <<"1">>, <<"2">>}
WeekdayTexts == {<<Wildcard>>, <<"1">>}

\* cron expressions of five fields, macros, expressions of four and of six
\* fields, one with an empty field and one with a minute out of range
Crons ==
  {Join(<<mi, h, d, mo, w>>, " ") :
     mi \in MinuteTexts, h \in HourTexts, d \in DayTexts, mo \in MonthTexts,
     w \in WeekdayTexts}
  \cup {Yearly, <<" ">> \o Hourly \o <<" ">>,
        <<"*", " ", "*", " ", "*", " ", "*">>,
        <<"*", " ", "*", " ", "*", " ", "*", " ", "*", " ", "*">>,
        <<"*", " ", " ", "*", " ", "*", " ", "*">>,
        <<"9", " ", "*", " ", "*", " ", "*", " ", "*">>}

\* the times the program starts from, in UTC: one Period after the epoch, so
\* that a search backward stays after the epoch.  No text of Crons has a
\* list, so that what slices.Compact leaves behind plays no part.
StartTimes ==
  [sec : (Period * SecondsPerMinute) .. (2 * Period * SecondsPerMinute - 1),
   zone : {UTC}]

ScheduleInit ==
  /\ ctor = "Schedule" /\ NoJob
  /\ clearTail = FALSE
  /\ fld = 0 /\ text = <<>> /\ parsePc = "none" /\ parsed = NilSlice
  /\ cron \in Crons
  /\ loc \in Zones
  /\ newPc = "call"
  /\ sched = NilSchedule /\ newErr = FALSE
  /\ cur \in StartTimes
  /\ last = NoCall
  /\ nops = 0

\* s, err := New(cron, loc)
callNew ==
  /\ newPc = "call"
  /\ \E r \in {New(cron, loc)} : sched' = r.s /\ newErr' = r.err
  /\ newPc' = "done"
  /\ UNCHANGED <<progVars, parseVars, cron, loc, cur, last, nops>>

\* the program uses the Schedule when New returned no error
Usable == newPc = "done" /\ ~newErr /\ ~sched.isNil /\ nops < MaxOps

\* cur = s.Next(cur), the first call on s or after another Next; a search
\* that never ends leaves the program in the call
callNext ==
  /\ Usable /\ last.op \in {"none", "Next"}
  /\ \E r \in {ScheduleNext(sched, cur)} :
        /\ last' = [op |-> "Next", arg |-> cur, ret |-> r.t,
                    returned |-> r.returned, val |-> FALSE]
        /\ cur' = IF r.returned THEN r.t ELSE cur
        /\ newPc' = IF r.returned THEN newPc ELSE "hung"
  /\ nops' = nops + 1
  /\ UNCHANGED <<progVars, parseVars, cron, loc, sched, newErr>>

\* cur = s.Prev(cur), the first call on s
callPrev ==
  /\ Usable /\ last.op = "none"
  /\ \E r \in {Prev(sched, cur)} :
        /\ last' = [op |-> "Prev", arg |-> cur, ret |-> r.t,
                    returned |-> r.returned, val |-> FALSE]
        /\ cur' = IF r.returned THEN r.t ELSE cur
        /\ newPc' = IF r.returned THEN newPc ELSE "hung"
  /\ nops' = nops + 1
  /\ UNCHANGED <<progVars, parseVars, cron, loc, sched, newErr>>

\* s.Matches(t), for the instant of cur expressed in some zone
callMatches ==
  /\ Usable /\ last.op = "none"
  /\ \E z \in Zones :
       last' = [op |-> "Matches", arg |-> In(cur, z), ret |-> NoTime,
                returned |-> TRUE, val |-> Matches(sched, In(cur, z))]
  /\ nops' = nops + 1
  /\ UNCHANGED <<progVars, parseVars, cron, loc, newPc, sched, newErr, cur>>

\* if s.Matches(m) { back := s.Prev(s.Next(m)) }, for a whole minute m in any
\* zone
callPrevOfNext ==
  /\ Usable /\ last.op = "none"
  /\ cur = Truncate(cur)
  /\ \E z \in Zones :
       \E m \in {In(cur, z)} :
         /\ Matches(sched, m)
         /\ \E n \in {ScheduleNext(sched, m)} :
              \E r \in {IF n.returned THEN Prev(sched, n.t) ELSE n} :
                /\ last' = [op |-> "PrevOfNext", arg |-> m, ret |-> r.t,
                            returned |-> r.returned, val |-> Matches(sched, m)]
                /\ newPc' = IF r.returned THEN newPc ELSE "hung"
  /\ nops' = nops + 1
  /\ UNCHANGED <<progVars, parseVars, cron, loc, sched, newErr, cur>>

\* if s.Matches(m) { forth := s.Next(s.Prev(m)) }, for a whole minute m in any
\* zone
callNextOfPrev ==
  /\ Usable /\ last.op = "none"
  /\ cur = Truncate(cur)
  /\ \E z \in Zones :
       \E m \in {In(cur, z)} :
         /\ Matches(sched, m)
         /\ \E n \in {Prev(sched, m)} :
              \E r \in {IF n.returned THEN ScheduleNext(sched, n.t) ELSE n} :
                /\ last' = [op |-> "NextOfPrev", arg |-> m, ret |-> r.t,
                            returned |-> r.returned, val |-> Matches(sched, m)]
                /\ newPc' = IF r.returned THEN newPc ELSE "hung"
  /\ nops' = nops + 1
  /\ UNCHANGED <<progVars, parseVars, cron, loc, sched, newErr, cur>>

ScheduleSteps ==
  \/ callNew \/ callNext \/ callPrev \/ callMatches
  \/ callPrevOfNext \/ callNextOfPrev

ScheduleSpec == ScheduleInit /\ [][ScheduleSteps]_vars

\* the argument of the last Next or Prev call, as the call reads it: in the
\* schedule's zone, truncated to the minute
LastFrom == Truncate(In(last.arg, sched.loc))

C23_SearchTerminates ==
  (last.op \in {"Next", "Prev"}) =>
    last.returned /\ Matches(sched, In(last.ret, sched.loc))

\* C24: Prev(t) is the greatest minute strictly before t truncated to the
\* minute at which Matches holds: it is on a minute, Matches holds of it and
\* of no minute between.
C24_PrevIsGreatest ==
  (last.op = "Prev" /\ last.returned) =>
    /\ last.ret.sec % SecondsPerMinute = 0
    /\ last.ret.sec < LastFrom.sec
    /\ Matches(sched, In(last.ret, sched.loc))
    /\ \A n \in 1 .. Period :
         Add(LastFrom, 0 - n).sec > last.ret.sec =>
           ~Matches(sched, Add(LastFrom, 0 - n))

\* a Prev call has returned, on a time that is not on the minute, and has
\* passed over a minute that does not match
C24_Witness ==
  /\ last.op = "Prev" /\ last.returned
  /\ last.arg.sec % SecondsPerMinute # 0
  /\ last.ret.sec < LastFrom.sec - SecondsPerMinute

\* C26: whenever New returns a non-nil error (a wrong number of fields or an
\* invalid field), the *Schedule it returns is nil.
C26_NilOnError == (newPc # "call" /\ newErr) => sched.isNil

\* C27: New fails when a field text holds the marker L on the minute, hour,
\* month or weekday field, or L together with other characters on the day
\* field: a Schedule constructed without error has L only as the whole text
\* of its day field.
C27_LastOnlyWholeDay ==
  (newPc # "call" /\ ~newErr /\ ~sched.isNil) =>
    \A f \in minuteInd .. weekdayInd :
      ContainsRune(sched.values[f + 1], Last) =>
        f = dayInd /\ sched.values[f + 1] = <<Last>>

\* C28: Matches(t) evaluates the field predicates on t converted to the
\* schedule's time zone: its result for an instant is the same whatever zone
\* the argument is expressed in.
C28_MatchesInScheduleZone ==
  (last.op = "Matches") => last.val = Matches(sched, In(last.arg, sched.loc))

\* ============ properties of the job's invocations (job.go) ============

\* a job with a pool of MaxWorkers workers (MaxConcurrent greater than one);
\* of the two failure thresholds, which stop the job the same way, only
\* MaxFailures is set
PoolInit ==
  /\ ctor \in {"New", "Func"}
  /\ options \in [MaxConcurrent : {MaxWorkers},
                  MaxFailures : 0 .. MaxLimit,
                  MaxConsecutiveFailures : {0}]
  /\ ctxDone = FALSE
  /\ calls = 0
  /\ state = IF ctor = "Func" THEN ScheduleStarted ELSE 0
  /\ previouslyStarted = (ctor = "Func")
  /\ stopCh = 0
  /\ mu = FALSE
  /\ Runs = 0 /\ Running = 0 /\ Failures = 0 /\ ConsecutiveFailures = 0
  /\ runtimes = <<>>
  /\ spc = [i \in Insts |-> IF i = 0 /\ ctor = "Func" THEN "lock"
                            ELSE IF i = 0 THEN "none" ELSE "idle"]
  /\ startPre = [i \in Insts |-> FALSE]
  /\ ictx = [i \in Insts |-> FALSE]
  /\ wpc = [i \in Insts |-> "none"]
  /\ dpc = [i \in Insts |-> [pc |-> "none", rt |-> 0]]
  /\ kpc = [i \in Insts |-> [w \in Workers |-> [pc |-> "none", rt |-> 0]]]
  /\ ipc = [t \in Ticks |-> "none"]
  /\ iown = [t \in Ticks |-> 0]
  /\ ierr = [t \in Ticks |-> FALSE]
  /\ ppc = [p \in Stoppers |-> "idle"]
  /\ pret = [p \in Stoppers |-> FALSE]
  /\ casRet = FALSE
  /\ tkCancel = FALSE /\ tkStop = 0 /\ tkWatch = "sel"
  /\ tsPc = "loop" /\ rPc = [pc |-> "sel", rt |-> 0] /\ clock = 0
  /\ ticksSeen = 0 /\ ticksSent = 0 /\ ticksDropped = 0
  /\ recvSuspended = {} /\ discarded = {}
  /\ AuxInit

PoolSpec == PoolInit /\ [][Next]_vars

\* the invocations that hold s.mu: the callback is running or has returned
\* and its record is not yet appended
InCallback == {t \in Ticks : ipc[t] \in {"call", "commit"}}

ReceivedTicks ==
  {t \in Ticks : \/ \E i \in Insts : dpc[i].rt = t
                 \/ t \in discarded
                 \/ ipc[t] # "none"}

\* the Start times of the history records are in ascending order
InTickOrder(rs) ==
  \A j, k \in 1 .. Len(rs) : j < k => rs[j].Start < rs[k].Start

\* a dispatch loop receives from Ticker.C a tick that no loop received
\* before and that was emitted after every tick received before
ReceivesInOrder ==
  \A i \in Insts :
    dispatchRecv(i) =>
      /\ dpc'[i].rt \in 1 .. clock
      /\ \A u \in ReceivedTicks : u < dpc'[i].rt

\* C21: the dispatch loop receives the ticks in the order the ticker emitted
\* them and each at most once, and with MaxConcurrent = 1 the history
\* records are in that same order.
C21_TickOrder ==
  /\ [][ReceivesInOrder]_vars
  /\ [](options.MaxConcurrent = 1 => InTickOrder(runtimes))

\* the fire-and-forget dispatch: a loop whose switch did not read Suspended
\* spawns execute(rt) for the tick it holds, and in either case is back at
\* its select in the same step
SpawnsAndReturns ==
  \A i \in Insts :
    (options.MaxConcurrent = 0 /\ dispatchSwitch(i)) =>
      /\ dpc'[i] = Idle
      /\ state # ScheduleSuspended =>
            /\ ipc[dpc[i].rt] = "none"
            /\ ipc'[dpc[i].rt] = "runs"
            /\ \A t \in Ticks : t # dpc[i].rt => ipc'[t] = ipc[t]

\* C30, as stated: with MaxConcurrent = 0 every tick received while the state
\* is not Suspended spawns an invocation, and once the job's goroutines
\* have nothing left to do Runs is the number of ticks received while not
\* Suspended.
C30_RunsCountsReceived ==
  /\ [][\A i \in Insts :
          (options.MaxConcurrent = 0 /\ dispatchSwitch(i)
             /\ dpc[i].rt \notin recvSuspended) => ipc'[dpc[i].rt] = "runs"]_vars
  /\ []((options.MaxConcurrent = 0 /\ JobQuiescent) =>
          Runs = Cardinality(ReceivedTicks \ recvSuspended))

\* C30, as the code has it: with MaxConcurrent = 0 the dispatch loop never
\* waits for an invocation: every tick whose state check does not read
\* Suspended spawns its own invocation and the loop is back at its select,
\* Runs never exceeds the ticks so checked, and once the job's goroutines
\* have nothing left to do Runs is their number.
C30_RunsCountsChecked ==
  /\ [][SpawnsAndReturns]_vars
  /\ [](options.MaxConcurrent = 0 =>
          /\ \A i \in Insts : dpc[i].pc # "send"
          /\ Runs <= Cardinality(ReceivedTicks \ discarded)
          /\ JobQuiescent => Runs = Cardinality(ReceivedTicks \ discarded))

\* a tick received while Started was discarded because Suspend ran before
\* the state check; after Resume the next tick spawned an invocation, which
\* finished while the loop was already back at its select
C30_Witness ==
  /\ options.MaxConcurrent = 0
  /\ JobQuiescent
  /\ discarded = {1} /\ recvSuspended = {}
  /\ ipc[2] = "done" /\ Runs = 1
  /\ \E i \in Insts : dpc[i] = Idle

\* ================ properties of the job's state (job.go) ================

\* C36: from the return of NewScheduledJob or ScheduleFunc on, State() is
\* one of the three values Started, Suspended and Stopped.
C36_ThreeStates ==
  state \in {ScheduleStarted, ScheduleSuspended, ScheduleStopped}

\* the callback of t fails and the failure reaches a threshold
Crosses(t) ==
  /\ ipc[t] = "call"
  /\ ThresholdReached(Failures + 1, ConsecutiveFailures + 1)

\* C31: the stop request of a failing invocation never blocks: whatever the
\* stop channel holds, the invocation can fail and go on to its append; the
\* channel never holds more than one request, and a request made while one
\* is pending leaves the channel as it is.
C31_StopRequestNonBlocking ==
  /\ [](stopCh <= 1)
  /\ [](\A t \in Ticks :
          Crosses(t) =>
            ENABLED (executeCall(t) /\ ierr'[t] /\ ipc'[t] = "commit"))
  /\ [][\A t \in Ticks :
          (Crosses(t) /\ executeCall(t) /\ ierr'[t]) =>
            stopCh' = 1 /\ ipc'[t] = "commit"]_vars

\* Stop has put its request on the channel, no stop-watcher has taken it,
\* and an invocation then crossed a threshold: its request was dropped
C31_Witness ==
  \E t \in Ticks, p \in Stoppers :
    /\ ~ctxDone /\ ppc[p] \in {"swap", "ret"}
    /\ \A i \in Insts : wpc[i] \in {"none", "sel"}
    /\ ipc[t] = "commit" /\ ierr[t]
    /\ ThresholdReached(Failures, ConsecutiveFailures)
    /\ stopCh = 1

\* C38: Stop(ctx) returns also when ctx is never cancelled: once the job's
\* goroutines and the calls under way can take no further step, no Stop
\* call is still waiting at its select on the stop channel.
C38_StopReturns ==
  (~ctxDone /\ JobQuiescent) => \A p \in Stoppers : ppc[p] # "sel"

\* the deferred close(jobCh) of start() i has run
JobChClosed(i) == options.MaxConcurrent > 0 /\ spc[i] = "nil"

\* C39: jobCh is closed only after the dispatch loop and every worker of
\* its start() have terminated: when it is closed the loop is not at its
\* send (nor anywhere else before its return), no worker is at its receive
\* or in execute, and every tick a worker executes is one the ticker
\* emitted, never the zero value of a closed channel.
C39_CloseAfterTermination ==
  /\ \A i \in Insts :
       JobChClosed(i) =>
         /\ dpc[i].pc = "done"
         /\ \A w \in Workers :
              w <= options.MaxConcurrent => kpc[i][w].pc = "done"
         /\ \A t \in Ticks : iown[t] = i => ipc[t] \in {"none", "done"}
  /\ \A i \in Insts, w \in Workers :
       kpc[i][w].pc = "exec" =>
         kpc[i][w].rt \in 1 .. clock /\ ipc[kpc[i][w].rt] # "none"

\* start() has returned and closed jobCh after both of its workers ran an
\* invocation
C39_Witness ==
  \E i \in Insts :
    /\ JobChClosed(i)
    /\ \A t \in Ticks : iown[t] = i /\ ipc[t] = "done"
    /\ Len(runtimes) = MaxTicks

\* ============ properties of the ticker's counters (ticker.go) ============

\* C37: the ticks counted as sent or dropped never outnumber the ticks
\* counted as seen, and whenever run is idle (at its outer select, or
\* returned) every tick counted as seen is counted as sent or as dropped.
C37_TickerAccounting ==
  /\ ticksSent + ticksDropped <= ticksSeen
  /\ rPc.pc \in {"sel", "done"} => ticksSeen = ticksSent + ticksDropped

\* ============ properties of the Schedule (schedule.go) ============

\* the accepted values and the accept-any flag of field f of Schedule s
Accepted(s, f) ==
  CASE f = minuteInd -> [any |-> s.allowAnyMinute, values |-> s.minutes]
    [] f = hourInd -> [any |-> s.allowAnyHour, values |-> s.hours]
    [] f = dayInd -> [any |-> s.allowAnyDay, values |-> s.days]
    [] f = monthInd -> [any |-> s.allowAnyMonth, values |-> s.months]
    [] f = weekdayInd -> [any |-> s.allowAnyWeekday, values |-> s.weekdays]

\* C35: in a Schedule that New constructs without error, each of the five
\* fields has at least one accepted value, unless its accept-any flag is set
\* or it is the day field with the text L.
C35_FieldsNonEmpty ==
  (newPc # "call" /\ ~newErr /\ ~sched.isNil) =>
    \A f \in minuteInd .. weekdayInd :
      \/ Accepted(sched, f).any
      \/ Accepted(sched, f).values # <<>>
      \/ f = dayInd /\ sched.values[f + 1] = <<Last>>

\* ============ properties of the field parser (schedule.go) ============

\* the value of a text that stands for one value of field f: a number
\* within the field, or the name of a month or weekday
SingleValue(f, s) ==
  IF Conversions(f, s).ok THEN [ok |-> TRUE, val |-> Conversions(f, s).val]
  ELSE IF Atoi(s).ok /\ Min(f) <= Atoi(s).val /\ Atoi(s).val <= Max(f)
  THEN [ok |-> TRUE, val |-> Atoi(s).val]
  ELSE [ok |-> FALSE, val |-> 0]

\* every n-th value of lo .. hi, starting with lo
EveryNth(lo, hi, n) == [k \in 1 .. ((hi - lo) \div n) + 1 |-> lo + (k - 1) * n]

\* the text parsed is a step expression base/n; base and n are the texts
\* before and after the first Step character
StepText == Cut(ToUpper(text), Step)
IsStepText ==
  /\ parsePc = "done"
  /\ ~ContainsRune(text, ListSeparator)
  /\ StepText.found
  /\ Atoi(StepText.after).ok

\* what parse has to return for a step of n >= 1 over lo .. hi
StepResult(lo, hi, n) ==
  IF Len(EveryNth(lo, hi, n)) = 1 THEN parsed.err
  ELSE parsed = Values(EveryNth(lo, hi, n))

\* C32: for a step expression base/n, a step amount below 1 is an error;
\* with n >= 1 and a base that is a single value v the result is every n-th
\* value of v .. max of the field, with a base that is a range it is every
\* n-th value of the range starting with its first; a result of exactly one
\* element is an error.
C32_StepValues ==
  IsStepText =>
    LET n == Atoi(StepText.after).val
        base == StepText.before
        v == SingleValue(fld, base)
        r == Cut(base, Range)
        a == SingleValue(fld, r.before)
        b == SingleValue(fld, r.after)
    IN /\ n < 1 => parsed.err
       /\ (n >= 1 /\ v.ok) => StepResult(v.val, Max(fld), n)
       /\ (n >= 1 /\ r.found /\ a.ok /\ b.ok /\ a.val < b.val) =>
            StepResult(a.val, b.val, n)

\* the day field with the text 1-3/2: every second day of 1 .. 3
C32_Witness ==
  /\ IsStepText
  /\ fld = dayInd
  /\ text = <<"1", Range, "3", Step, "2">>
  /\ parsed = Values(<<1, 3>>)

\* ---- the last day of the month ----

\* the Schedule of "* * L * *": every field but the day takes every value
EveryLastDay == String(sched) = <<"*", " ", "*", " ", Last, " ", "*", " ", "*">>

\* C33: with L as the day field, the schedule matches a time exactly when the
\* time falls on the last calendar day of its month, in every month and year
\* and in every zone the time is expressed in
C33_LastDayOfMonth ==
  (last.op = "Matches" /\ EveryLastDay)
     => (last.val <=> DayOf(last.arg) = DaysIn(MonthOf(last.arg)))

\* ---- the yearly and the monthly jump of Next ----

YearlyExpr == <<"0", " ", "0", " ", "1", " ", "1", " ", "*">>
MonthlyExpr == <<"0", " ", "0", " ", "1", " ", "*", " ", "*">>

C40_NextPrevInverse ==
  (last.op \in {"PrevOfNext", "NextOfPrev"} /\ last.val)
     => last.returned /\ last.ret.sec = last.arg.sec

====
